---------------------------- MODULE Spec2Model ----------------------------
(***************************************************************************)
(* A model of the hifijson lexer and parser: the two byte sources          *)
(* (SliceLexer, IterLexer), the Read and Write layers, the token layer,    *)
(* the number and string lexers, the escape recognizer and the value and   *)
(* ignore parsers built on them.                                           *)
(*                                                                         *)
(* Bytes are the integers 0..255.  An item of the upstream iterator of an  *)
(* IterLexer is a byte (Ok(b)) or ErrBase + e (Err(e), e >= 1).            *)
(* Option<u8> is a byte or NoByte; Option<E> is an error id or NoError.    *)
(*                                                                         *)
(* A lexer is a record                                                     *)
(*   kind  : "slice" or "iter"                                             *)
(*   whole : SliceLexer.whole                                              *)
(*   off   : SliceLexer.offset(), the slice being whole[off..]             *)
(*   bytes : the items IterLexer.bytes has not yielded yet                 *)
(*   last  : IterLexer.last                                                *)
(*   error : IterLexer.error                                               *)
(* The operations of the traits are written once and dispatch on kind,     *)
(* as the trait implementations do.                                        *)
(***************************************************************************)
EXTENDS Integers, Sequences, FiniteSets, TLC

VARIABLES
    data,   \* the input byte sequence
    fed,    \* the size of data, counted in the chunks it was built from
    op,     \* the operation applied last ("new": none yet)
    arg,    \* the argument of op (0 if it has none)
    sv,     \* what op returned on the SliceLexer, capturing tier
    iv,     \* what op returned on the IterLexer, capturing tier
    si,     \* what op returned on the SliceLexer, ignoring tier
    ii      \* what op returned on the IterLexer, ignoring tier

vars == <<data, fed, op, arg, sv, iv, si, ii>>

\* a value computed once and used under a name: F applied to v
Let(v, F(_)) == F(v)

-----------------------------------------------------------------------------
(* Bytes *)

NoByte == -1
NoError == 0
ErrBase == 256

HT == 9
LF == 10
CR == 13
SP == 32
QUOTE == 34
PLUS == 43
COMMA == 44
MINUS == 45
DOT == 46
SLASH == 47
ZERO == 48
NINE == 57
COLON == 58
LSQUARE == 91
BACKSLASH == 92
RSQUARE == 93
LCURLY == 123
RCURLY == 125

Min(S) == CHOOSE x \in S : \A y \in S : x <= y

\* s[from..] as a sequence (from is a 0-based offset)
Drop(s, from) == SubSeq(s, from + 1, Len(s))

\* s[..n]
Take(s, n) == SubSeq(s, 1, n)

StartsWith(s, p) == Len(p) <= Len(s) /\ Take(s, Len(p)) = p

\* the 1-based index of the first element of s at or after index i0 that
\* is in S, Len(s) + 1 if there is none (Iterator::position / find)
FirstIdx(s, i0, S) ==
    LET I == {i \in i0..Len(s) : s[i] \in S}
    IN  IF I = {} THEN Len(s) + 1 ELSE Min(I)

IsErrItem(x) == x >= ErrBase

-----------------------------------------------------------------------------
(* The two sources *)

SliceLexer_new(slice) ==
    [kind |-> "slice", whole |-> slice, off |-> 0,
     bytes |-> <<>>, last |-> NoByte, error |-> NoError]

IterLexer_new(iter) ==
    [kind |-> "iter", whole |-> <<>>, off |-> 0,
     bytes |-> iter, last |-> NoByte, error |-> NoError]

\* SliceLexer.slice
as_slice(lx) == Drop(lx.whole, lx.off)

-----------------------------------------------------------------------------
(* Errors.  crate::Error, with its payload flattened:                       *)
(*   Depth                       [cat "Depth"]                              *)
(*   Num(ExpectedDigit)          [cat "Num",   kind "ExpectedDigit"]        *)
(*   Str(Control | Eof)          [cat "Str",   kind ...]                    *)
(*   Str(Utf8(e))                [cat "Str",   kind "Utf8", a valid_up_to,  *)
(*                                b error_len (0 for None)]                 *)
(*   Str(Escape(k))              [cat "Escape", kind k, a payload]          *)
(*   Token(expect)               [cat "Token", kind expect]                 *)
(* A panic is carried the same way, [cat "Panic"]: it unwinds through every *)
(* caller as `?` does.                                                      *)

Error(cat, kind, a, b) == [cat |-> cat, kind |-> kind, a |-> a, b |-> b]
NoErr == Error("None", "", 0, 0)
Expect(kind) == Error("Token", kind, 0, 0)
ExpectedDigit == Error("Num", "ExpectedDigit", 0, 0)
Depth == Error("Depth", "", 0, 0)
Panic(what) == Error("Panic", what, 0, 0)

-----------------------------------------------------------------------------
(* The predicates on bytes of token.rs *)

IsWhitespace(c) == c \in {SP, HT, CR, LF}
IsDigit(c) == c \in ZERO..NINE
IsLetter(c) == c \in 97..122 \/ c \in 65..90

-----------------------------------------------------------------------------
(* escape.rs: literal escapes and hexadecimal digits *)

EscapeError(kind, a) == Error("Escape", kind, a, 0)

\* Lit::try_from with the characters of \n and \r exchanged
Lit_try_from_swapped(c) ==
    CASE c = QUOTE     -> 34
      [] c = BACKSLASH -> 92
      [] c = SLASH     -> 47
      [] c = 98        -> 8
      [] c = 102       -> 12
      [] c = 110       -> 13
      [] c = 114       -> 10
      [] c = 116       -> 9
      [] OTHER         -> NoByte

\* Lit::try_from followed by Lit::as_u8; NoByte for None
Lit_try_from(c) ==
    CASE c = QUOTE     -> 34
      [] c = BACKSLASH -> 92
      [] c = SLASH     -> 47
      [] c = 98        -> 8     \* b
      [] c = 102       -> 12    \* f
      [] c = 110       -> 10    \* n
      [] c = 114       -> 13    \* r
      [] c = 116       -> 9     \* t
      [] OTHER         -> NoByte

\* decode_hex; NoByte for None
decode_hex(val) ==
    CASE val \in 48..57  -> val - 48
      [] val \in 97..102 -> val - 97 + 10
      [] val \in 65..70  -> val - 65 + 10
      [] OTHER           -> NoByte

-----------------------------------------------------------------------------
(* str.rs: the string lexing state machine.  State.escape is                 *)
(*   None            esc "None"                                              *)
(*   Some(None)      esc "Kind"                                              *)
(*   Some(Some(k))   esc "Hex", pos k                                        *)

StrError(kind) == Error("Str", kind, 0, 0)

State_default == [esc |-> "None", pos |-> 0, error |-> NoErr]

\* State::process: the state it leaves, and whether it returned true
process(st, c) ==
    LET done(s2) == [st |-> s2, stop |-> s2.error # NoErr]
    IN  CASE st.esc = "Hex" ->
               IF decode_hex(c) = NoByte
               THEN done([st EXCEPT !.error = EscapeError("InvalidHex", c)])
               ELSE IF st.pos < 3 THEN done([st EXCEPT !.pos = @ + 1])
               ELSE done([st EXCEPT !.esc = "None", !.pos = 0])
          [] st.esc = "Kind" ->
               IF c = 117 THEN done([st EXCEPT !.esc = "Hex", !.pos = 0])
               ELSE IF Lit_try_from(c) # NoByte THEN done([st EXCEPT !.esc = "None"])
               ELSE done([st EXCEPT !.error = EscapeError("InvalidKind", c)])
          [] OTHER ->
               CASE c = QUOTE     -> [st |-> st, stop |-> TRUE]
                 [] c = BACKSLASH -> done([st EXCEPT !.esc = "Kind"])
                 [] c \in 0..31   -> done([st EXCEPT !.error = StrError("Control")])
                 [] OTHER         -> [st |-> st, stop |-> FALSE]

\* string_end of str_fold
string_end(c) == c = BACKSLASH \/ c = QUOTE \/ c \in 0..31

-----------------------------------------------------------------------------
(* The stop closures handed to skip_until, write_until and foreach_until,   *)
(* named by a tag.  A call leaves the closure's state st and returns stop:  *)
(*   "eat_whitespace"  |c| !matches!(c, b' ' | b'\t' | b'\r' | b'\n')       *)
(*   "string_end"      string_end                                           *)
(*   "process"         |c| state.process(c), st being the State             *)
(*   "space"           |_, c| c == b' '       (write.rs:18)                 *)
(*   "never"           |_, _| false           (write.rs:20)                 *)

stop_call(stop, st, c) ==
    CASE stop = "eat_whitespace" -> [st |-> st, stop |-> ~IsWhitespace(c)]
      [] stop = "string_end"     -> [st |-> st, stop |-> string_end(c)]
      [] stop = "space"          -> [st |-> st, stop |-> c = SP]
      [] stop = "never"          -> [st |-> st, stop |-> FALSE]
      [] OTHER                   -> process(st, c)

-----------------------------------------------------------------------------
(* Scanning with a stop closure.  Scan calls it on s[i0], s[i0+1], ...     *)
(* until it returns true; pos is the index of the byte it returned true     *)
(* for, Len(s) + 1 if there is none.  With upstream, s holds the items of   *)
(* an iterator and the scan also ends at an Err item.                       *)

Scan(s, i0, st0, stop, upstream) ==
    LET f[i \in (i0 - 1)..Len(s)] ==
            IF i = i0 - 1 THEN [pos |-> i, st |-> st0, stop |-> FALSE]
            ELSE Let(f[i - 1], LAMBDA p :
                 IF p.stop THEN p
                 ELSE IF upstream /\ IsErrItem(s[i])
                 THEN [pos |-> i, st |-> p.st, stop |-> TRUE]
                 ELSE Let(stop_call(stop, p.st, s[i]), LAMBDA r :
                      [pos |-> i, st |-> r.st, stop |-> r.stop]))
    IN  Let(f[Len(s)], LAMBDA e :
        [pos |-> IF e.stop THEN e.pos ELSE Len(s) + 1, st |-> e.st])

-----------------------------------------------------------------------------
(* impl Read for SliceLexer, impl Write for SliceLexer                      *)
(* A captured Bytes of the slice source is a range of whole:                *)
(* [ptr |-> offset of its first byte, len |-> its length].                  *)

SliceBytes(lx, bytes) == SubSeq(lx.whole, bytes.ptr + 1, bytes.ptr + bytes.len)

Slice_strip_prefix(lx, s) ==
    IF StartsWith(as_slice(lx), s)
    THEN [lx |-> [lx EXCEPT !.off = @ + Len(s)], ok |-> TRUE]
    ELSE [lx |-> lx, ok |-> FALSE]

Slice_read(lx) ==
    IF lx.off >= Len(lx.whole)
    THEN [lx |-> lx, b |-> NoByte]
    ELSE [lx |-> [lx EXCEPT !.off = @ + 1], b |-> lx.whole[lx.off + 1]]

Slice_peek_next(lx) ==
    IF lx.off >= Len(lx.whole) THEN NoByte ELSE lx.whole[lx.off + 1]

Slice_take_next(lx) == Slice_read(lx)

\* append_until: rewind by the length of bytes, then extend bytes up to the
\* first byte, past those it already holds, for which stop is true.
\* panic: the contiguity debug_assert_eq, or the rewind underflowing.
Slice_append_until(lx, bytes, st0, stop) ==
    IF bytes.ptr + bytes.len # lx.off \/ lx.off - bytes.len < 0
    THEN [lx |-> lx, bytes |-> bytes, st |-> st0, panic |-> TRUE]
    ELSE LET start == lx.off - bytes.len
             slice == Drop(lx.whole, start)
         IN  Let(Scan(slice, bytes.len + 1, st0, stop, FALSE), LAMBDA r :
             LET pos == r.pos - 1
             IN  [lx    |-> [lx EXCEPT !.off = start + pos],
                  bytes |-> [ptr |-> start, len |-> pos],
                  st    |-> r.st,
                  panic |-> FALSE])

Slice_write_until(lx, st0, stop) ==
    Slice_append_until(lx, [ptr |-> lx.off, len |-> 0], st0, stop)

Slice_skip_until(lx, st0, stop) ==
    Let(Slice_write_until(lx, st0, stop), LAMBDA r : [lx |-> r.lx, st |-> r.st])

Slice_skip_next_until(lx, st0, stop) == Slice_skip_until(lx, st0, stop)

-----------------------------------------------------------------------------
(* impl Read for IterLexer, impl Write for IterLexer                        *)

\* read: the next upstream item; an Err is stored in the error cell and
\* reported as None.
Iter_read(lx) ==
    IF lx.bytes = <<>>
    THEN [lx |-> lx, b |-> NoByte]
    ELSE LET c == Head(lx.bytes)
         IN  IF IsErrItem(c)
             THEN [lx |-> [lx EXCEPT !.bytes = Tail(@), !.error = c - ErrBase],
                   b |-> NoByte]
             ELSE [lx |-> [lx EXCEPT !.bytes = Tail(@)], b |-> c]

\* strip_prefix(s, n): n is the number of bytes of s matched so far
RECURSIVE Iter_strip_prefix_from(_, _, _)
Iter_strip_prefix_from(lx, s, n) ==
    IF n >= Len(s) THEN [lx |-> lx, ok |-> TRUE]
    ELSE Let(Iter_read(lx), LAMBDA r :
         IF r.b = s[n + 1]
         THEN Iter_strip_prefix_from(r.lx, s, n + 1)
         ELSE [lx |-> r.lx, ok |-> FALSE])

Iter_strip_prefix(lx, s) == Iter_strip_prefix_from(lx, s, 0)

\* skip_until: read upstream (the cell `last` is not looked at) up to the
\* first byte for which stop is true, which goes into `last`; an upstream
\* Err ends the loop with last = Some(0) and the error stored.
Iter_skip_until(lx, st0, stop) ==
    Let(Scan(lx.bytes, 1, st0, stop, TRUE), LAMBDA r :
        IF r.pos > Len(lx.bytes)
        THEN [lx |-> [lx EXCEPT !.bytes = <<>>, !.last = NoByte], st |-> r.st]
        ELSE LET c == lx.bytes[r.pos]
             IN  IF IsErrItem(c)
                 THEN [lx |-> [lx EXCEPT !.bytes = Drop(@, r.pos), !.last = 0,
                                         !.error = c - ErrBase],
                       st |-> r.st]
                 ELSE [lx |-> [lx EXCEPT !.bytes = Drop(@, r.pos), !.last = c],
                       st |-> r.st])

Iter_skip_next_until(lx, st0, stop) ==
    IF lx.last = NoByte THEN Iter_skip_until(lx, st0, stop)
    ELSE Let(stop_call(stop, st0, lx.last), LAMBDA r :
         IF r.stop THEN [lx |-> lx, st |-> r.st]
         ELSE Iter_skip_until(lx, st0, stop))

Iter_peek_next(lx) == lx.last

Iter_take_next(lx) == [lx |-> [lx EXCEPT !.last = NoByte], b |-> lx.last]

-----------------------------------------------------------------------------
(* trait Read, dispatched on the source *)

strip_prefix(lx, s) ==
    IF lx.kind = "slice" THEN Slice_strip_prefix(lx, s) ELSE Iter_strip_prefix(lx, s)

skip_until(lx, st0, stop) ==
    IF lx.kind = "slice" THEN Slice_skip_until(lx, st0, stop)
    ELSE Iter_skip_until(lx, st0, stop)

peek_next(lx) ==
    IF lx.kind = "slice" THEN Slice_peek_next(lx) ELSE Iter_peek_next(lx)

take_next(lx) ==
    IF lx.kind = "slice" THEN Slice_take_next(lx) ELSE Iter_take_next(lx)

\* impl Write for IterLexer: append_until.  One turn of its while loop:
\* peek; stop if the closure says so; else take the byte and push it.
Iter_append_until(lx, bytes, st0, stop) ==
    LET N == Len(lx.bytes) + 2
        f[n \in 0..N] ==
            IF n = 0 THEN [lx |-> lx, bytes |-> bytes, st |-> st0, done |-> FALSE]
            ELSE Let(f[n - 1], LAMBDA p :
                 LET c == Iter_peek_next(p.lx)
                 IN  IF p.done THEN p
                     ELSE IF c = NoByte THEN [p EXCEPT !.done = TRUE]
                     ELSE Let(stop_call(stop, p.st, c), LAMBDA r :
                          IF r.stop THEN [p EXCEPT !.st = r.st, !.done = TRUE]
                          ELSE [lx |-> Iter_take_next(p.lx).lx,
                                bytes |-> Append(p.bytes, c),
                                st |-> r.st, done |-> FALSE]))
    IN  Let(f[N], LAMBDA e :
        [lx |-> e.lx, bytes |-> e.bytes, st |-> e.st, panic |-> FALSE])

Iter_write_until(lx, st0, stop) == Iter_append_until(lx, <<>>, st0, stop)

\* trait Write: write_until, with the captured bytes as a byte sequence
write_until(lx, st0, stop) ==
    IF lx.kind = "slice"
    THEN Let(Slice_write_until(lx, st0, stop), LAMBDA r :
         [lx |-> r.lx, bytes |-> SliceBytes(r.lx, r.bytes), st |-> r.st])
    ELSE Let(Iter_write_until(lx, st0, stop), LAMBDA r :
         [lx |-> r.lx, bytes |-> r.bytes, st |-> r.st])

-----------------------------------------------------------------------------
(* token.rs: trait Lex *)

eat_whitespace(lx) ==
    skip_until(lx, 0, "eat_whitespace").lx

\* token leaving `-` unconsumed, as it leaves a digit
token_minus_left(lx, c) ==
    CASE IsLetter(c) -> [lx |-> lx, tok |-> "Letter"]
      [] IsDigit(c)  -> [lx |-> lx, tok |-> "Digit"]
      [] c = MINUS   -> [lx |-> lx, tok |-> "Minus"]
      [] c = QUOTE   -> [lx |-> take_next(lx).lx, tok |-> "Quote"]
      [] c = LSQUARE -> [lx |-> take_next(lx).lx, tok |-> "LSquare"]
      [] c = RSQUARE -> [lx |-> take_next(lx).lx, tok |-> "RSquare"]
      [] c = LCURLY  -> [lx |-> take_next(lx).lx, tok |-> "LCurly"]
      [] c = RCURLY  -> [lx |-> take_next(lx).lx, tok |-> "RCurly"]
      [] c = COMMA   -> [lx |-> take_next(lx).lx, tok |-> "Comma"]
      [] c = COLON   -> [lx |-> take_next(lx).lx, tok |-> "Colon"]
      [] OTHER       -> [lx |-> lx, tok |-> "Error"]

\* token: classify c, the byte peek_next shows; the single-character tokens
\* are consumed, Letter, Digit and Error are not.
token(lx, c) ==
    CASE IsLetter(c) -> [lx |-> lx, tok |-> "Letter"]
      [] IsDigit(c)  -> [lx |-> lx, tok |-> "Digit"]
      [] c = MINUS   -> [lx |-> take_next(lx).lx, tok |-> "Minus"]
      [] c = QUOTE   -> [lx |-> take_next(lx).lx, tok |-> "Quote"]
      [] c = LSQUARE -> [lx |-> take_next(lx).lx, tok |-> "LSquare"]
      [] c = RSQUARE -> [lx |-> take_next(lx).lx, tok |-> "RSquare"]
      [] c = LCURLY  -> [lx |-> take_next(lx).lx, tok |-> "LCurly"]
      [] c = RCURLY  -> [lx |-> take_next(lx).lx, tok |-> "RCurly"]
      [] c = COMMA   -> [lx |-> take_next(lx).lx, tok |-> "Comma"]
      [] c = COLON   -> [lx |-> take_next(lx).lx, tok |-> "Colon"]
      [] OTHER       -> [lx |-> lx, tok |-> "Error"]

\* ws_token: tok is "None" at the end of the input
ws_token(lx) ==
    Let(eat_whitespace(lx), LAMBDA l1 :
        LET c == peek_next(l1)
        IN  IF c = NoByte THEN [lx |-> l1, tok |-> "None"] ELSE token(l1, c))

\* null_or_bool deciding on the first letter alone, the rest of the literal
\* skipped if it is there
null_or_bool_first(lx) ==
    Let(take_next(lx), LAMBDA t :
        CASE t.b = 110 ->
               [lx |-> strip_prefix(t.lx, <<117, 108, 108>>).lx, v |-> "null"]
          [] t.b = 116 ->
               [lx |-> strip_prefix(t.lx, <<114, 117, 101>>).lx, v |-> "true"]
          [] t.b = 102 ->
               [lx |-> strip_prefix(t.lx, <<97, 108, 115, 101>>).lx, v |-> "false"]
          [] OTHER -> [lx |-> t.lx, v |-> "none"])

\* null_or_bool: v is "null", "true", "false" (Some(..)) or "none" (None)
null_or_bool(lx) ==
    Let(take_next(lx), LAMBDA t :
        CASE t.b = 110 ->  \* n
               Let(strip_prefix(t.lx, <<117, 108, 108>>), LAMBDA r :
                   [lx |-> r.lx, v |-> IF r.ok THEN "null" ELSE "none"])
          [] t.b = 116 ->  \* t
               Let(strip_prefix(t.lx, <<114, 117, 101>>), LAMBDA r :
                   [lx |-> r.lx, v |-> IF r.ok THEN "true" ELSE "none"])
          [] t.b = 102 ->  \* f
               Let(strip_prefix(t.lx, <<97, 108, 115, 101>>), LAMBDA r :
                   [lx |-> r.lx, v |-> IF r.ok THEN "false" ELSE "none"])
          [] OTHER -> [lx |-> t.lx, v |-> "none"])

-----------------------------------------------------------------------------
(* num.rs.  Parts is [dot, exp], 0 standing for None (both are NonZeroUsize). *)
(* A number result is [ok, err, parts, text, lx]: text is what the closure   *)
(* of num_foreach was called with (num_ignore drops it), or the bytes        *)
(* num_bytes wrote.                                                          *)

NoParts == [dot |-> 0, exp |-> 0]
is_int(parts) == parts.dot = 0 /\ parts.exp = 0

NumOk(parts, text, lx) ==
    [ok |-> TRUE, err |-> NoErr, parts |-> parts, text |-> text, lx |-> lx]
NumErr(e, lx) ==
    [ok |-> FALSE, err |-> e, parts |-> NoParts, text |-> <<>>, lx |-> lx]

\* digits_foreach: out is the digits f was called with, appended to acc
RECURSIVE digits_foreach(_, _)
digits_foreach(lx, acc) ==
    Let(peek_next(lx), LAMBDA c :
        IF c # NoByte /\ IsDigit(c)
        THEN digits_foreach(take_next(lx).lx, Append(acc, c))
        ELSE [lx |-> lx, out |-> acc])

\* the loop of num_foreach
RECURSIVE num_foreach_loop(_, _, _, _)
num_foreach_loop(lx, pos, parts, out) ==
    Let(peek_next(lx), LAMBDA c :
        CASE c = DOT /\ is_int(parts) ->
               IF pos = 0 THEN NumErr(Panic("NonZeroUsize"), lx)
               ELSE Let(digits_foreach(take_next(lx).lx, Append(out, c)), LAMBDA d :
                    LET n == Len(d.out) - Len(out) - 1
                    IN  IF n = 0 THEN NumErr(ExpectedDigit, d.lx)
                        ELSE num_foreach_loop(d.lx, pos + 1 + n,
                                              [parts EXCEPT !.dot = pos], d.out))
          [] c \in {101, 69} /\ parts.exp = 0 ->
               IF pos = 0 THEN NumErr(Panic("NonZeroUsize"), lx)
               ELSE Let(take_next(lx).lx, LAMBDA l1 :
                    Let(peek_next(l1), LAMBDA sign :
                    LET has  == sign \in {PLUS, MINUS}
                        o2   == IF has THEN out \o <<c, sign>> ELSE Append(out, c)
                        pos2 == IF has THEN pos + 1 ELSE pos
                    IN  Let(digits_foreach(IF has THEN take_next(l1).lx ELSE l1, o2),
                            LAMBDA d :
                        LET n == Len(d.out) - Len(o2)
                        IN  IF n = 0 THEN NumErr(ExpectedDigit, d.lx)
                            ELSE num_foreach_loop(d.lx, pos2 + 1 + n,
                                                  [parts EXCEPT !.exp = pos], d.out))))
          [] OTHER -> NumOk(parts, out, lx))

num_foreach(lx) ==
    Let(take_next(lx), LAMBDA t :
        CASE t.b = ZERO -> num_foreach_loop(t.lx, 1, NoParts, <<ZERO>>)
          [] t.b \in (ZERO + 1)..NINE ->
               Let(digits_foreach(t.lx, <<t.b>>), LAMBDA d :
                   num_foreach_loop(d.lx, Len(d.out), NoParts, d.out))
          [] OTHER -> NumErr(ExpectedDigit, t.lx))

num_ignore(lx) == [num_foreach(lx) EXCEPT !.text = <<>>]

\* fn digits(s): the number of leading ASCII digits of s
digits(s) == FirstIdx(s, 1, (0..255) \ (ZERO..NINE)) - 1

\* the loop of SliceLexer::num_bytes recording the offset after the '.' or
\* the 'e', not the offset of it
RECURSIVE Slice_num_loop_past(_, _, _, _)
Slice_num_loop_past(lx, slice, pos, parts) ==
    LET c == IF pos < Len(slice) THEN slice[pos + 1] ELSE NoByte
    IN  CASE c = DOT /\ parts.dot = 0 /\ parts.exp = 0 ->
               Let(digits(Drop(slice, pos + 1)), LAMBDA n :
                   IF n = 0 THEN NumErr(ExpectedDigit, lx)
                   ELSE Slice_num_loop_past(lx, slice, pos + 1 + n,
                                            [parts EXCEPT !.dot = pos + 1]))
          [] c \in {101, 69} /\ parts.exp = 0 ->
               LET p1 == pos + 1
                   p2 == IF p1 < Len(slice) /\ slice[p1 + 1] \in {PLUS, MINUS}
                         THEN p1 + 1 ELSE p1
               IN  Let(digits(Drop(slice, p2)), LAMBDA n :
                   IF n = 0 THEN NumErr(ExpectedDigit, lx)
                   ELSE Slice_num_loop_past(lx, slice, p2 + n,
                                            [parts EXCEPT !.exp = pos + 1]))
          [] OTHER ->
               NumOk(parts, Take(slice, pos), [lx EXCEPT !.off = @ + pos])

\* the loop of SliceLexer::num_bytes; slice is the rewound self.slice
RECURSIVE Slice_num_loop(_, _, _, _)
Slice_num_loop(lx, slice, pos, parts) ==
    LET c == IF pos < Len(slice) THEN slice[pos + 1] ELSE NoByte
    IN  CASE c = DOT /\ parts.dot = 0 /\ parts.exp = 0 ->
               IF pos = 0 THEN NumErr(Panic("NonZeroUsize"), lx)
               ELSE Let(digits(Drop(slice, pos + 1)), LAMBDA n :
                    IF n = 0 THEN NumErr(ExpectedDigit, lx)
                    ELSE Slice_num_loop(lx, slice, pos + 1 + n,
                                        [parts EXCEPT !.dot = pos]))
          [] c \in {101, 69} /\ parts.exp = 0 ->
               IF pos = 0 THEN NumErr(Panic("NonZeroUsize"), lx)
               ELSE LET p1 == pos + 1
                        p2 == IF p1 < Len(slice) /\ slice[p1 + 1] \in {PLUS, MINUS}
                              THEN p1 + 1 ELSE p1
                    IN  Let(digits(Drop(slice, p2)), LAMBDA n :
                        IF n = 0 THEN NumErr(ExpectedDigit, lx)
                        ELSE Slice_num_loop(lx, slice, p2 + n,
                                            [parts EXCEPT !.exp = pos]))
          [] OTHER ->
               NumOk(parts, Take(slice, pos), [lx EXCEPT !.off = @ + pos])

\* SliceLexer::num_bytes taking every leading digit, after a 0 as well
Slice_num_bytes_zeros(lx, prefix) ==
    LET l1    == [lx EXCEPT !.off = @ - Len(prefix)]
        slice == as_slice(l1)
        pos   == Len(prefix)
    IN  Let(digits(Drop(slice, pos)), LAMBDA n :
        IF n = 0 THEN NumErr(ExpectedDigit, l1)
        ELSE Slice_num_loop(l1, slice, pos + n, NoParts))

\* SliceLexer::num_bytes: the text is whole[off' .. off' + pos], off' being
\* the offset rewound by the length of the prefix
Slice_num_bytes(lx, prefix) ==
    IF lx.off - Len(prefix) < 0 THEN NumErr(Panic("rewind"), lx)
    ELSE LET l1    == [lx EXCEPT !.off = @ - Len(prefix)]
             slice == as_slice(l1)
             pos   == Len(prefix)
         IN  IF ~StartsWith(slice, prefix) THEN NumErr(Panic("assert"), l1)
             ELSE IF pos < Len(slice) /\ slice[pos + 1] = ZERO
             THEN Slice_num_loop(l1, slice, pos + 1, NoParts)
             ELSE Let(digits(Drop(slice, pos)), LAMBDA n :
                  IF n = 0 THEN NumErr(ExpectedDigit, l1)
                  ELSE Slice_num_loop(l1, slice, pos + n, NoParts))

\* IterLexer::digits: ok is some_digit && self.error.is_none()
RECURSIVE Iter_digits_loop(_, _)
Iter_digits_loop(lx, num) ==
    LET c == Iter_peek_next(lx)
    IN  IF c # NoByte /\ IsDigit(c)
        THEN Iter_digits_loop(Iter_take_next(lx).lx, Append(num, c))
        ELSE [lx |-> lx, num |-> num]

Iter_digits(lx, num) ==
    Let(Iter_digits_loop(lx, num), LAMBDA d :
        [lx |-> d.lx, num |-> d.num,
         ok |-> Len(d.num) > Len(num) /\ d.lx.error = NoError])

\* the loop of IterLexer::num_bytes
RECURSIVE Iter_num_loop(_, _, _)
Iter_num_loop(lx, num, parts) ==
    LET c == Iter_peek_next(lx)
    IN  CASE c = DOT /\ parts.dot = 0 /\ parts.exp = 0 ->
               IF Len(num) = 0 THEN NumErr(Panic("NonZeroUsize"), lx)
               ELSE Let(Iter_digits(Iter_take_next(lx).lx, Append(num, c)), LAMBDA d :
                    IF ~d.ok THEN NumErr(ExpectedDigit, d.lx)
                    ELSE Iter_num_loop(d.lx, d.num, [parts EXCEPT !.dot = Len(num)]))
          [] c \in {101, 69} /\ parts.exp = 0 ->
               IF Len(num) = 0 THEN NumErr(Panic("NonZeroUsize"), lx)
               ELSE LET l1   == Iter_take_next(lx).lx
                        sign == Iter_peek_next(l1)
                        has  == sign \in {PLUS, MINUS}
                        l2   == IF has THEN Iter_take_next(l1).lx ELSE l1
                        n2   == IF has THEN num \o <<c, sign>> ELSE Append(num, c)
                    IN  Let(Iter_digits(l2, n2), LAMBDA d :
                        IF ~d.ok THEN NumErr(ExpectedDigit, d.lx)
                        ELSE Iter_num_loop(d.lx, d.num,
                                           [parts EXCEPT !.exp = Len(num)]))
          [] OTHER -> NumOk(parts, num, lx)

Iter_num_bytes(lx, prefix) ==
    IF Iter_peek_next(lx) = ZERO
    THEN Iter_num_loop(Iter_take_next(lx).lx, Append(prefix, ZERO), NoParts)
    ELSE Let(Iter_digits(lx, prefix), LAMBDA d :
         IF ~d.ok THEN NumErr(ExpectedDigit, d.lx)
         ELSE Iter_num_loop(d.lx, d.num, NoParts))

\* num_bytes / num_string (the text of a number is ASCII, so from_utf8 of it
\* never fails)
num_bytes(lx, prefix) ==
    IF lx.kind = "slice" THEN Slice_num_bytes(lx, prefix) ELSE Iter_num_bytes(lx, prefix)

num_string(lx, prefix) == num_bytes(lx, prefix)

-----------------------------------------------------------------------------
(* UTF-8, as core::str::from_utf8, char::from_u32 and String::push compute it *)

IsCont(c) == c \in 128..191

\* the length of the well-formed sequence that starts at s[i]; when there is
\* none, bad is error_len (0: the input ends inside the sequence)
Utf8Seq(s, i) ==
    LET b     == s[i]
        at(k) == IF i + k <= Len(s) THEN s[i + k] ELSE NoByte
        need  == CASE b < 128        -> 1
                   [] b \in 194..223 -> 2
                   [] b \in 224..239 -> 3
                   [] b \in 240..244 -> 4
                   [] OTHER          -> 0
        second == CASE b = 224 -> 160..191
                    [] b = 237 -> 128..159
                    [] b = 240 -> 144..191
                    [] b = 244 -> 128..143
                    [] OTHER   -> 128..191
    IN  CASE need = 0 -> [len |-> 0, bad |-> 1]
          [] need = 1 -> [len |-> 1, bad |-> 0]
          [] at(1) = NoByte -> [len |-> 0, bad |-> 0]
          [] at(1) \notin second -> [len |-> 0, bad |-> 1]
          [] need = 2 -> [len |-> 2, bad |-> 0]
          [] at(2) = NoByte -> [len |-> 0, bad |-> 0]
          [] ~IsCont(at(2)) -> [len |-> 0, bad |-> 2]
          [] need = 3 -> [len |-> 3, bad |-> 0]
          [] at(3) = NoByte -> [len |-> 0, bad |-> 0]
          [] ~IsCont(at(3)) -> [len |-> 0, bad |-> 3]
          [] OTHER -> [len |-> 4, bad |-> 0]

\* from_utf8(s): ok, or Utf8Error {valid_up_to, error_len}
from_utf8(s) ==
    LET f[i \in 1..(Len(s) + 1)] ==
            IF i > Len(s) THEN [ok |-> TRUE, valid_up_to |-> Len(s), error_len |-> 0]
            ELSE Let(Utf8Seq(s, i), LAMBDA q :
                 IF q.len = 0
                 THEN [ok |-> FALSE, valid_up_to |-> i - 1, error_len |-> q.bad]
                 ELSE f[i + q.len])
    IN  f[1]

Utf8(e) == Error("Str", "Utf8", e.valid_up_to, e.error_len)

\* char::from_u32
IsChar(u) == u \in 0..55295 \/ u \in 57344..1114111

\* the UTF-8 encoding of the char u
encode_utf8(u) ==
    CASE u < 128   -> <<u>>
      [] u < 2048  -> <<192 + (u \div 64), 128 + (u % 64)>>
      [] u < 65536 -> <<224 + (u \div 4096), 128 + ((u \div 64) % 64), 128 + (u % 64)>>
      [] OTHER     -> <<240 + (u \div 262144), 128 + ((u \div 4096) % 64),
                        128 + ((u \div 64) % 64), 128 + (u % 64)>>

-----------------------------------------------------------------------------
(* escape.rs.  An Escape is [k, v]: k is "Lit" (v the byte as_u8 gives),     *)
(* "Unicode" (v the u16) or "Byte" (v the u8).                               *)

\* Escape::try_from; k "None" for None
Escape_try_from(c) ==
    CASE Lit_try_from(c) # NoByte -> [k |-> "Lit", v |-> Lit_try_from(c)]
      [] c = 120                  -> [k |-> "Byte", v |-> 0]      \* x
      [] c = 117                  -> [k |-> "Unicode", v |-> 0]   \* u
      [] OTHER                    -> [k |-> "None", v |-> 0]

\* hexn::<T>: n is size_of::<T>() * 2 hex digits, each shifted in from the
\* right in the width of T (8 * size_of::<T>() = 4 * n bits)
RECURSIVE hexn_from(_, _, _, _)
hexn_from(lx, n, k, hex) ==
    IF k = n THEN [ok |-> TRUE, err |-> NoErr, hex |-> hex, lx |-> lx]
    ELSE Let(take_next(lx), LAMBDA t :
         LET h == decode_hex(t.b)
         IN  IF t.b = NoByte
             THEN [ok |-> FALSE, err |-> EscapeError("Eof", 0), hex |-> 0, lx |-> t.lx]
             ELSE IF h = NoByte
             THEN [ok |-> FALSE, err |-> EscapeError("InvalidHex", t.b), hex |-> 0,
                   lx |-> t.lx]
             ELSE hexn_from(t.lx, n, k + 1, ((hex * 16) % (2 ^ (4 * n))) + h))

hexn(lx, n) == hexn_from(lx, n, 0, 0)

\* Lex::escape: read an escape sequence, its leading backslash already taken
escape(lx) ==
    Let(take_next(lx), LAMBDA t :
    Let(Escape_try_from(t.b), LAMBDA e :
        CASE t.b = NoByte ->
               [ok |-> FALSE, err |-> EscapeError("Eof", 0), esc |-> e, lx |-> t.lx]
          [] e.k = "None" ->
               [ok |-> FALSE, err |-> EscapeError("InvalidKind", t.b), esc |-> e,
                lx |-> t.lx]
          [] e.k \in {"Unicode", "Byte"} ->
               Let(hexn(t.lx, IF e.k = "Unicode" THEN 4 ELSE 2), LAMBDA x :
                   [ok |-> x.ok, err |-> x.err, esc |-> [e EXCEPT !.v = x.hex],
                    lx |-> x.lx])
          [] OTHER -> [ok |-> TRUE, err |-> NoErr, esc |-> e, lx |-> t.lx]))

\* the code point of a surrogate pair: the two differences are taken in u16
\* (wrapping at 2^16), the product and the sums in u32, whose values here
\* stay below 2^31
pair(high, low) ==
    (((high - 55296) % 65536) * 1024 + ((low - 56320) % 65536)) + 65536

\* Lex::escape_char: the result is [k "Unicode", v the char] or [k "Byte", v]
escape_char(lx, esc) ==
    LET from_u32(u, l) ==
            IF IsChar(u)
            THEN [ok |-> TRUE, err |-> NoErr, c |-> [k |-> "Unicode", v |-> u], lx |-> l]
            ELSE [ok |-> FALSE, err |-> EscapeError("InvalidChar", u),
                  c |-> [k |-> "Unicode", v |-> 0], lx |-> l]
        fail(e, l) == [ok |-> FALSE, err |-> e, c |-> [k |-> "Unicode", v |-> 0], lx |-> l]
    IN  CASE esc.k = "Unicode" /\ esc.v \in 55296..56319 ->
               Let(take_next(lx), LAMBDA t :
                   IF t.b # BACKSLASH
                   THEN fail(EscapeError("ExpectedLowSurrogate", 0), t.lx)
                   ELSE Let(escape(t.lx), LAMBDA r :
                        IF ~r.ok THEN fail(r.err, r.lx)
                        ELSE IF r.esc.k = "Unicode" /\ r.esc.v \in 56320..57343
                        THEN from_u32(pair(esc.v, r.esc.v), r.lx)
                        ELSE fail(EscapeError("ExpectedLowSurrogate", 0), r.lx)))
          [] esc.k = "Byte" ->
               [ok |-> TRUE, err |-> NoErr, c |-> esc, lx |-> lx]
          [] OTHER -> from_u32(esc.v, lx)

\* State::finish without the check of the closing quote
finish_unterminated(st, lx) ==
    CASE st.error # NoErr -> [ok |-> FALSE, err |-> st.error, lx |-> lx]
      [] st.esc # "None"  -> [ok |-> FALSE, err |-> EscapeError("Eof", 0), lx |-> lx]
      [] OTHER            -> [ok |-> TRUE, err |-> NoErr, lx |-> take_next(lx).lx]

\* State::finish, next being take_next of lx
finish(st, lx) ==
    CASE st.error # NoErr -> [ok |-> FALSE, err |-> st.error, lx |-> lx]
      [] st.esc # "None"  -> [ok |-> FALSE, err |-> EscapeError("Eof", 0), lx |-> lx]
      [] OTHER ->
           Let(take_next(lx), LAMBDA t :
               IF t.b # QUOTE
               THEN [ok |-> FALSE, err |-> StrError("Eof"), lx |-> t.lx]
               ELSE [ok |-> TRUE, err |-> NoErr, lx |-> t.lx])

\* Read::foreach_until(f, stop): consume the bytes that precede the first
\* byte for which stop is true, calling f on each (str_ignore passes a
\* closure that does nothing)
foreach_until(lx, st0, stop) == skip_until(lx, st0, stop)

str_foreach(lx) ==
    Let(foreach_until(lx, State_default, "process"), LAMBDA r : finish(r.st, r.lx))

str_ignore(lx) == str_foreach(lx)

\* str_bytes leaving the lexer where write_until stopped, before the quote
str_bytes_before_quote(lx) ==
    Let(write_until(lx, State_default, "process"), LAMBDA r :
    Let(finish(r.st, r.lx), LAMBDA f :
        [ok |-> f.ok, err |-> f.err, bytes |-> r.bytes, lx |-> r.lx]))

str_bytes(lx) ==
    Let(write_until(lx, State_default, "process"), LAMBDA r :
    Let(finish(r.st, r.lx), LAMBDA f :
        [ok |-> f.ok, err |-> f.err, bytes |-> r.bytes, lx |-> f.lx]))

\* the char of the escape sequence whose first byte, next, has been taken
escape_next(lx, next) ==
    CASE next = 117 ->
           Let(hexn(lx, 4), LAMBDA x :
               IF x.ok THEN escape_char(x.lx, [k |-> "Unicode", v |-> x.hex])
               ELSE [ok |-> FALSE, err |-> x.err, c |-> [k |-> "Unicode", v |-> 0],
                     lx |-> x.lx])
      [] Lit_try_from(next) # NoByte ->
           escape_char(lx, [k |-> "Lit", v |-> Lit_try_from(next)])
      [] OTHER ->
           [ok |-> FALSE, err |-> EscapeError("InvalidKind", next),
            c |-> [k |-> "Unicode", v |-> 0], lx |-> lx]

\* A decoded string is [s, owned]: its UTF-8 bytes, and whether it is owned
\* (a String, or Cow::Owned) or borrowed from the input (Cow::Borrowed).
StrOk(out, lx) == [ok |-> TRUE, err |-> NoErr, out |-> out, lx |-> lx]
StrErr(e, lx) == [ok |-> FALSE, err |-> e, out |-> [s |-> <<>>, owned |-> FALSE], lx |-> lx]

\* Slice_on_string copying the first run too instead of borrowing it
Slice_on_string_owned(bytes, out) ==
    Let(from_utf8(bytes), LAMBDA u :
        CASE ~u.ok         -> [ok |-> FALSE, err |-> Utf8(u), out |-> out]
          [] bytes = <<>>  -> [ok |-> TRUE, err |-> NoErr, out |-> out]
          [] OTHER         -> [ok |-> TRUE, err |-> NoErr,
                               out |-> [s |-> out.s \o bytes, owned |-> TRUE]])

\* the on_string closure of SliceLexer::str_string
Slice_on_string(bytes, out) ==
    Let(from_utf8(bytes), LAMBDA u :
        CASE ~u.ok         -> [ok |-> FALSE, err |-> Utf8(u), out |-> out]
          [] bytes = <<>>  -> [ok |-> TRUE, err |-> NoErr, out |-> out]
          [] out.s = <<>>  -> [ok |-> TRUE, err |-> NoErr,
                               out |-> [s |-> bytes, owned |-> FALSE]]
          [] OTHER         -> [ok |-> TRUE, err |-> NoErr,
                               out |-> [s |-> out.s \o bytes, owned |-> TRUE]])

\* the on_string closure of IterLexer::str_string
Iter_on_string(bytes, out) ==
    IF bytes = <<>> THEN [ok |-> TRUE, err |-> NoErr, out |-> out]
    ELSE Let(from_utf8(bytes), LAMBDA u :
         IF ~u.ok THEN [ok |-> FALSE, err |-> Utf8(u), out |-> out]
         ELSE [ok |-> TRUE, err |-> NoErr,
               out |-> [s |-> out.s \o bytes, owned |-> TRUE]])

on_string(lx, bytes, out) ==
    IF lx.kind = "slice" THEN Slice_on_string(bytes, out) ELSE Iter_on_string(bytes, out)

\* the on_escape closure of str_string (the same for both sources)
on_escape(lx, out) ==
    Let(take_next(lx), LAMBDA t :
        IF t.b = NoByte THEN StrErr(EscapeError("Eof", 0), t.lx)
        ELSE Let(escape_next(t.lx, t.b), LAMBDA r :
             IF ~r.ok THEN StrErr(r.err, r.lx)
             ELSE StrOk([s |-> out.s \o encode_utf8(r.c.v), owned |-> TRUE], r.lx)))

\* str_fold: first is TRUE before the loop; within the loop on_escape runs
\* before the next run is written
RECURSIVE str_fold(_, _, _)
str_fold(lx, out, first) ==
    Let(IF first THEN StrOk(out, lx) ELSE on_escape(lx, out), LAMBDA e :
        IF ~e.ok THEN e
        ELSE Let(write_until(e.lx, 0, "string_end"), LAMBDA w :
             Let(on_string(lx, w.bytes, e.out), LAMBDA o :
                 IF ~o.ok THEN StrErr(o.err, w.lx)
                 ELSE Let(take_next(w.lx), LAMBDA t :
                      CASE t.b = NoByte     -> StrErr(StrError("Eof"), t.lx)
                        [] t.b = BACKSLASH  -> str_fold(t.lx, o.out, FALSE)
                        [] t.b = QUOTE      -> StrOk(o.out, t.lx)
                        [] t.b \in 0..31    -> StrErr(StrError("Control"), t.lx)
                        [] OTHER            -> StrErr(Panic("unreachable"), t.lx)))))

Slice_str_string(lx) == str_fold(lx, [s |-> <<>>, owned |-> FALSE], TRUE)

Iter_str_string(lx) == str_fold(lx, [s |-> <<>>, owned |-> TRUE], TRUE)

str_string(lx) ==
    IF lx.kind = "slice" THEN Slice_str_string(lx) ELSE Iter_str_string(lx)

-----------------------------------------------------------------------------
(* value.rs: Value.  A value is a record [t, b, s, parts, kids, keys]:       *)
(*   Null                    t "Null"                                        *)
(*   Bool(b)                 t "Bool", b                                     *)
(*   Number((s, parts))      t "Number", s the text, parts                   *)
(*   String(s)               t "String", s the UTF-8 bytes                   *)
(*   Array(kids)             t "Array", kids                                 *)
(*   Object(keys zip kids)   t "Object", keys[i] the key of kids[i]          *)
(* Equality of these records is Value's PartialEq.                           *)

Value(t, b, s, parts, kids, keys) ==
    [t |-> t, b |-> b, s |-> s, parts |-> parts, kids |-> kids, keys |-> keys]
Null == Value("Null", FALSE, <<>>, NoParts, <<>>, <<>>)
Bool(b) == Value("Bool", b, <<>>, NoParts, <<>>, <<>>)
Number(s, parts) == Value("Number", FALSE, s, parts, <<>>, <<>>)
String(s) == Value("String", FALSE, s, NoParts, <<>>, <<>>)
Array(kids) == Value("Array", FALSE, <<>>, NoParts, kids, <<>>)
Object(keys, kids) == Value("Object", FALSE, <<>>, NoParts, kids, keys)

\* the result of a parser: Ok(v), or Err(err); lx is the lexer it leaves.
\* The ignore parser returns Ok(()), carried as Ok(Null).
Ok(v, lx) == [ok |-> TRUE, err |-> NoErr, v |-> v, lx |-> lx]
Err(e, lx) == [ok |-> FALSE, err |-> e, v |-> Null, lx |-> lx]

-----------------------------------------------------------------------------
(* token.rs: str_colon, seq, exactly_one; ignore.rs; value.rs.             *)
(* The closures handed to seq and exactly_one are named by a tag:            *)
(*   "ignore"        ignore::parse                                           *)
(*   "ignore_entry"  the closure of ignore::parse for Token::LCurly          *)
(*   "value"         value::from_token                                       *)
(*   "value_entry"   the closure of from_token for Token::LCurly             *)
(*   "depth"         parse_depth(d, ..)                                      *)
(*   "depth_entry"   the closure of parse_depth for Token::LCurly            *)
(* d is the depth the closure has captured (unused by the first four).       *)

RECURSIVE ignore_parse(_, _)
RECURSIVE from_token(_, _)
RECURSIVE parse_depth(_, _, _)
RECURSIVE item(_, _, _, _)
RECURSIVE seq_loop(_, _, _, _, _, _, _)

\* str_colon(tok, tf, f) with tf = ws_token and f = str_ignore or
\* str_string; v is String(key)
str_colon(tok, lx, decode) ==
    IF tok # "Quote" THEN Err(Expect("String"), lx)
    ELSE Let(IF decode THEN str_string(lx)
             ELSE Let(str_ignore(lx), LAMBDA r :
                      IF r.ok THEN StrOk([s |-> <<>>, owned |-> FALSE], r.lx)
                      ELSE StrErr(r.err, r.lx)),
             LAMBDA k :
         IF ~k.ok THEN Err(k.err, k.lx)
         ELSE Let(ws_token(k.lx), LAMBDA c :
              IF c.tok # "Colon" THEN Err(Expect("Colon"), c.lx)
              ELSE Ok(String(k.out.s), c.lx)))

\* one call of the closure named tag; the result carries the key in key
item(tag, d, tok, lx) ==
    LET entry == tag \in {"ignore_entry", "value_entry", "depth_entry"}
    IN  Let(IF entry THEN str_colon(tok, lx, tag # "ignore_entry")
            ELSE Ok(String(<<>>), lx), LAMBDA k :
        IF ~k.ok
        THEN [ok |-> FALSE, err |-> k.err, v |-> Null, key |-> <<>>, lx |-> k.lx]
        ELSE Let(IF entry THEN ws_token(k.lx) ELSE [lx |-> lx, tok |-> tok], LAMBDA t :
             IF t.tok = "None"
             THEN [ok |-> FALSE, err |-> Expect("Value"), v |-> Null, key |-> <<>>,
                   lx |-> t.lx]
             ELSE Let(CASE tag \in {"ignore", "ignore_entry"} -> ignore_parse(t.tok, t.lx)
                        [] tag \in {"value", "value_entry"}   -> from_token(t.tok, t.lx)
                        [] OTHER -> parse_depth(d, t.tok, t.lx),
                      LAMBDA r :
                  [ok |-> r.ok, err |-> r.err, v |-> r.v, key |-> k.v.s, lx |-> r.lx])))

\* the loop of seq with the closure pushing in front instead of at the back
seq_loop_front(lx, end, tag, d, tok, kids, keys) ==
    Let(item(tag, d, tok, lx), LAMBDA r :
        IF ~r.ok
        THEN [ok |-> FALSE, err |-> r.err, kids |-> kids, keys |-> keys, lx |-> r.lx]
        ELSE Let(ws_token(r.lx), LAMBDA t :
             LET ks == <<r.v>> \o kids
                 ky == <<r.key>> \o keys
             IN  CASE t.tok = "None"  ->
                        [ok |-> FALSE, err |-> Expect("CommaOrEnd"), kids |-> ks,
                         keys |-> ky, lx |-> t.lx]
                   [] t.tok = end     ->
                        [ok |-> TRUE, err |-> NoErr, kids |-> ks, keys |-> ky,
                         lx |-> t.lx]
                   [] t.tok = "Comma" ->
                        Let(ws_token(t.lx), LAMBDA t2 :
                            IF t2.tok = "None"
                            THEN [ok |-> FALSE, err |-> Expect("Value"), kids |-> ks,
                                  keys |-> ky, lx |-> t2.lx]
                            ELSE seq_loop(t2.lx, end, tag, d, t2.tok, ks, ky))
                   [] OTHER           ->
                        [ok |-> FALSE, err |-> Expect("CommaOrEnd"), kids |-> ks,
                         keys |-> ky, lx |-> t.lx]))

\* the loop of seq; kids and keys are what the closure has pushed so far
seq_loop(lx, end, tag, d, tok, kids, keys) ==
    Let(item(tag, d, tok, lx), LAMBDA r :
        IF ~r.ok
        THEN [ok |-> FALSE, err |-> r.err, kids |-> kids, keys |-> keys, lx |-> r.lx]
        ELSE Let(ws_token(r.lx), LAMBDA t :
             LET ks == Append(kids, r.v)
                 ky == Append(keys, r.key)
             IN  CASE t.tok = "None"  ->
                        [ok |-> FALSE, err |-> Expect("CommaOrEnd"), kids |-> ks,
                         keys |-> ky, lx |-> t.lx]
                   [] t.tok = end     ->
                        [ok |-> TRUE, err |-> NoErr, kids |-> ks, keys |-> ky,
                         lx |-> t.lx]
                   [] t.tok = "Comma" ->
                        Let(ws_token(t.lx), LAMBDA t2 :
                            IF t2.tok = "None"
                            THEN [ok |-> FALSE, err |-> Expect("Value"), kids |-> ks,
                                  keys |-> ky, lx |-> t2.lx]
                            ELSE seq_loop(t2.lx, end, tag, d, t2.tok, ks, ky))
                   [] OTHER           ->
                        [ok |-> FALSE, err |-> Expect("CommaOrEnd"), kids |-> ks,
                         keys |-> ky, lx |-> t.lx]))

\* seq reporting Value, not ValueOrEnd, when the input ends after the opener
seq_eof_value(lx, end, tag, d) ==
    Let(ws_token(lx), LAMBDA t :
        CASE t.tok = "None" -> [ok |-> FALSE, err |-> Expect("Value"), kids |-> <<>>,
                                keys |-> <<>>, lx |-> t.lx]
          [] t.tok = end    -> [ok |-> TRUE, err |-> NoErr, kids |-> <<>>, keys |-> <<>>,
                                lx |-> t.lx]
          [] OTHER          -> seq_loop(t.lx, end, tag, d, t.tok, <<>>, <<>>))

\* seq(end, tf, f) with tf = ws_token and f the closure named tag
seq(lx, end, tag, d) ==
    Let(ws_token(lx), LAMBDA t :
        CASE t.tok = "None" -> [ok |-> FALSE, err |-> Expect("ValueOrEnd"), kids |-> <<>>,
                                keys |-> <<>>, lx |-> t.lx]
          [] t.tok = end    -> [ok |-> TRUE, err |-> NoErr, kids |-> <<>>, keys |-> <<>>,
                                lx |-> t.lx]
          [] OTHER          -> seq_loop(t.lx, end, tag, d, t.tok, <<>>, <<>>))

\* ignore::parse
ignore_parse(tok, lx) ==
    CASE tok = "Letter" ->
           Let(null_or_bool(lx), LAMBDA r :
               IF r.v = "none" THEN Err(Expect("Value"), r.lx) ELSE Ok(Null, r.lx))
      [] tok \in {"Digit", "Minus"} ->
           Let(num_ignore(lx), LAMBDA r :
               IF r.ok THEN Ok(Null, r.lx) ELSE Err(r.err, r.lx))
      [] tok = "Quote" ->
           Let(str_ignore(lx), LAMBDA r :
               IF r.ok THEN Ok(Null, r.lx) ELSE Err(r.err, r.lx))
      [] tok = "LSquare" ->
           Let(seq(lx, "RSquare", "ignore", 0), LAMBDA r :
               IF r.ok THEN Ok(Null, r.lx) ELSE Err(r.err, r.lx))
      [] tok = "LCurly" ->
           Let(seq(lx, "RCurly", "ignore_entry", 0), LAMBDA r :
               IF r.ok THEN Ok(Null, r.lx) ELSE Err(r.err, r.lx))
      [] OTHER -> Err(Expect("Value"), lx)

\* value::from_token
from_token(tok, lx) ==
    CASE tok = "Letter" ->
           Let(null_or_bool(lx), LAMBDA r :
               CASE r.v = "none" -> Err(Expect("Value"), r.lx)
                 [] r.v = "null" -> Ok(Null, r.lx)
                 [] OTHER        -> Ok(Bool(r.v = "true"), r.lx))
      [] tok \in {"Digit", "Minus"} ->
           Let(num_string(lx, IF tok = "Minus" THEN <<MINUS>> ELSE <<>>), LAMBDA r :
               IF r.ok THEN Ok(Number(r.text, r.parts), r.lx) ELSE Err(r.err, r.lx))
      [] tok = "Quote" ->
           Let(str_string(lx), LAMBDA r :
               IF r.ok THEN Ok(String(r.out.s), r.lx) ELSE Err(r.err, r.lx))
      [] tok = "LSquare" ->
           Let(seq(lx, "RSquare", "value", 0), LAMBDA r :
               IF r.ok THEN Ok(Array(r.kids), r.lx) ELSE Err(r.err, r.lx))
      [] tok = "LCurly" ->
           Let(seq(lx, "RCurly", "value_entry", 0), LAMBDA r :
               IF r.ok THEN Ok(Object(r.keys, r.kids), r.lx) ELSE Err(r.err, r.lx))
      [] OTHER -> Err(Expect("Value"), lx)

\* parse_depth testing the depth only where it descends
parse_depth_containers(depth, tok, lx) ==
    CASE tok \in {"LSquare", "LCurly"} /\ depth = 0 -> Err(Depth, lx)
      [] tok = "LSquare" ->
           Let(seq(lx, "RSquare", "depth", depth - 1), LAMBDA r :
               IF r.ok THEN Ok(Array(r.kids), r.lx) ELSE Err(r.err, r.lx))
      [] tok = "LCurly" ->
           Let(seq(lx, "RCurly", "depth_entry", depth - 1), LAMBDA r :
               IF r.ok THEN Ok(Object(r.keys, r.kids), r.lx) ELSE Err(r.err, r.lx))
      [] OTHER -> from_token(tok, lx)

\* value::parse_depth
parse_depth(depth, tok, lx) ==
    CASE depth = 0 -> Err(Depth, lx)
      [] tok = "LSquare" ->
           Let(seq(lx, "RSquare", "depth", depth - 1), LAMBDA r :
               IF r.ok THEN Ok(Array(r.kids), r.lx) ELSE Err(r.err, r.lx))
      [] tok = "LCurly" ->
           Let(seq(lx, "RCurly", "depth_entry", depth - 1), LAMBDA r :
               IF r.ok THEN Ok(Object(r.keys, r.kids), r.lx) ELSE Err(r.err, r.lx))
      [] OTHER -> from_token(tok, lx)

\* exactly_one returning the value without looking at what follows it
exactly_one_lenient(lx, tag, d) ==
    Let(ws_token(lx), LAMBDA t :
        IF t.tok = "None" THEN Err(Expect("Value"), t.lx)
        ELSE Let(item(tag, d, t.tok, t.lx), LAMBDA r :
             IF ~r.ok THEN Err(r.err, r.lx) ELSE Ok(r.v, r.lx)))

\* exactly_one(tf, f) with tf = ws_token and f the closure named tag
exactly_one(lx, tag, d) ==
    Let(ws_token(lx), LAMBDA t :
        IF t.tok = "None" THEN Err(Expect("Value"), t.lx)
        ELSE Let(item(tag, d, t.tok, t.lx), LAMBDA r :
             IF ~r.ok THEN Err(r.err, r.lx)
             ELSE Let(eat_whitespace(r.lx), LAMBDA l :
                  IF peek_next(l) = NoByte THEN Ok(r.v, l)
                  ELSE Err(Expect("Eof"), l))))

-----------------------------------------------------------------------------
(* The runs.  An input is built chunk by chunk (Feed) while no operation    *)
(* has been applied; an operation is then applied to a SliceLexer and to an *)
(* IterLexer over the same input, and what it returned is recorded.         *)

NoRes == [ok |-> FALSE, err |-> NoErr]

Start(d) ==
    /\ data = d
    /\ fed = Len(d)
    /\ op = "new"
    /\ arg = 0
    /\ sv = NoRes /\ iv = NoRes /\ si = NoRes /\ ii = NoRes

Feed(c, max) ==
    /\ op = "new"
    /\ fed < max
    /\ data' = data \o c
    /\ fed' = fed + 1
    /\ UNCHANGED <<op, arg, sv, iv, si, ii>>

\* ASCII of the hexadecimal digit d
HexDigit(d, upper) == IF d < 10 THEN ZERO + d ELSE (IF upper THEN 55 ELSE 87) + d

\* the escape sequence \uXXXX of the 16-bit value u
EscU(u, upper) ==
    <<BACKSLASH, 117, HexDigit(u \div 4096, upper), HexDigit((u \div 256) % 16, upper),
      HexDigit((u \div 16) % 16, upper), HexDigit(u % 16, upper)>>

\* Result without the lexer
Outcome(r) == [ok |-> r.ok, err |-> r.err, v |-> r.v]

-----------------------------------------------------------------------------
(* Whole documents: fuzz/fuzz_targets/all.rs, tests/tests.rs (parses_to)    *)

MaxChunks == 4

JsonChunks ==
    { <<LSQUARE>>, <<RSQUARE>>, <<COMMA>>, <<SP>>, <<49>>, <<MINUS>>, <<QUOTE>>,
      <<110, 117, 108, 108>>, <<159>>, EscU(55297, TRUE), EscU(56375, TRUE) }

Init == Start(<<>>)

FeedJson == \E c \in JsonChunks : Feed(c, MaxChunks)

\* fuzz_target: exactly_one with the value parser on both sources and with
\* the ignore parser (as parses_to does, on both sources as well)
fuzz_target ==
    /\ op = "new"
    /\ op' = "fuzz"
    /\ sv' = Outcome(exactly_one(SliceLexer_new(data), "value", 0))
    /\ iv' = Outcome(exactly_one(IterLexer_new(data), "value", 0))
    /\ si' = Outcome(exactly_one(SliceLexer_new(data), "ignore", 0))
    /\ ii' = Outcome(exactly_one(IterLexer_new(data), "ignore", 0))
    /\ UNCHANGED <<data, fed, arg>>

Next == FeedJson \/ fuzz_target

Spec == Init /\ [][Next]_vars

\* C1 (mode agreement): exactly_one with the value parser returns the same
\* result on a SliceLexer and on an IterLexer over the same bytes: both Ok
\* with equal Values or both Err with equal Errors.
C1_ModeAgreement == op = "fuzz" => sv = iv

\* C1 on an input where the sources agree: [1] is the same Array on both
C1_AgreeWitness ==
    /\ op = "fuzz"
    /\ data = <<LSQUARE, 49, RSQUARE>>
    /\ sv.ok /\ iv = sv /\ sv.v.t = "Array" /\ Len(sv.v.kids) = 1

\* Error::is_unicode_error
is_unicode_error(e) ==
    \/ e.cat = "Str" /\ e.kind = "Utf8"
    \/ e.cat = "Escape" /\ e.kind \in {"InvalidChar", "ExpectedLowSurrogate"}

-----------------------------------------------------------------------------
(* Arrays: tests/tests.rs (arrays), value::parse_depth.  The inputs are     *)
(* built from the bytes [ ] , 0 and space, so that every byte but the space *)
(* is one token (a number that starts with 0 ends after it).                *)

MaxSeqLen == 5
MaxDepth == 3

SeqBytes == {LSQUARE, RSQUARE, COMMA, ZERO, SP}

InitSeq == Start(<<>>)

FeedSeq == \E c \in SeqBytes : Feed(<<c>>, MaxSeqLen)

\* exactly_one with parse_depth(d, ..) as the parser, on both sources (sv,
\* iv), and with parse_unbounded for comparison (si, ii)
exactly_one_depth(d) ==
    /\ op = "new"
    /\ op' = "depth"
    /\ arg' = d
    /\ sv' = Outcome(exactly_one(SliceLexer_new(data), "depth", d))
    /\ iv' = Outcome(exactly_one(IterLexer_new(data), "depth", d))
    /\ si' = Outcome(exactly_one(SliceLexer_new(data), "value", 0))
    /\ ii' = Outcome(exactly_one(IterLexer_new(data), "value", 0))
    /\ UNCHANGED <<data, fed>>

NextSeq == FeedSeq \/ fuzz_target \/ \E d \in 0..MaxDepth : exactly_one_depth(d)

SpecSeq == InitSeq /\ [][NextSeq]_vars

\* The grammar of a document, read token by token.  mode is what is awaited:
\*   "Doc"  the value of the document        "VE"  a first item or the end
\*   "CE"   a comma or the end               "V"   an item (after a comma)
\*   "Eof"  nothing more                     "Err" (the fault is in err)
\* open is the number of arrays not closed yet, nest the largest number of
\* arrays not closed yet where a value began.
RefStep(q, c) ==
    LET fail(e)  == [q EXCEPT !.mode = "Err", !.err = e]
        value    == [q EXCEPT !.mode = IF q.open = 0 THEN "Eof" ELSE "CE",
                              !.nest = IF q.open > @ THEN q.open ELSE @]
        opened   == [q EXCEPT !.mode = "VE", !.open = @ + 1,
                              !.nest = IF q.open > @ THEN q.open ELSE @]
        closed   == [q EXCEPT !.mode = IF q.open = 1 THEN "Eof" ELSE "CE",
                              !.open = @ - 1]
    IN  CASE q.mode = "Err" -> q
          [] q.mode = "Eof" -> fail("Eof")
          [] q.mode = "CE"  -> CASE c = RSQUARE -> closed
                                 [] c = COMMA   -> [q EXCEPT !.mode = "V"]
                                 [] OTHER       -> fail("CommaOrEnd")
          [] c = ZERO       -> value
          [] c = LSQUARE    -> opened
          [] q.mode = "VE" /\ c = RSQUARE -> closed
          [] OTHER          -> fail("Value")

RefRun(s) ==
    LET toks == SelectSeq(s, LAMBDA c : c # SP)
        f[i \in 0..Len(toks)] ==
            IF i = 0 THEN [mode |-> "Doc", open |-> 0, nest |-> 0, err |-> ""]
            ELSE RefStep(f[i - 1], toks[i])
    IN  f[Len(toks)]

\* what the grammar says of the input: "" if it is a document, else the fault
RefFault(s) ==
    LET q == RefRun(s)
    IN  CASE q.mode = "Err" -> q.err
          [] q.mode = "Eof" -> ""
          [] q.mode = "VE"  -> "ValueOrEnd"
          [] q.mode = "CE"  -> "CommaOrEnd"
          [] OTHER          -> "Value"

WellFormed(s) == RefFault(s) = ""

\* the number of arrays that enclose the deepest value of a document
Nesting(s) == RefRun(s).nest

\* r is the result the grammar gives for the input
Follows(r, s) ==
    IF WellFormed(s) THEN r.ok ELSE ~r.ok /\ r.err = Expect(RefFault(s))

-----------------------------------------------------------------------------
(* Numbers: tests/tests.rs (numbers).  A step lexes the next number as the  *)
(* value and the ignore parser do: ws_token, then num_string with the       *)
(* prefix "" after Token::Digit and "-" after Token::Minus (num_foreach,    *)
(* which num_ignore wraps, in the ignoring tier).  Steps repeat on the same *)
(* lexers, so adjacent numbers are lexed one after the other.               *)

MaxNumLen == 5

NumBytes == {ZERO, 49, DOT, 101, 69, MINUS, PLUS, 97}

NumSeeds ==
    { <<>>,
      <<51, 46, 49, 52>>,                           \* 3.14
      <<50, 57, 57, 101, 54>>,                      \* 299e6
      <<50, 57, 57, 46, 55, 57, 50, 101, 54>>,      \* 299.792e6
      <<45, 49, 46, 50, 101, 51>>,                  \* -1.2e3
      <<52, 50, 97, 98, 99>>,                       \* 42abc
      <<48, 48, 55>> }                              \* 007

InitNum == \E d \in NumSeeds : Start(d)

FeedNum == \E c \in NumBytes : Feed(<<c>>, MaxNumLen)

\* the input a lexer has not consumed yet
Remaining(lx) ==
    IF lx.kind = "slice" THEN as_slice(lx)
    ELSE (IF lx.last = NoByte THEN <<>> ELSE <<lx.last>>) \o lx.bytes

\* one number: r is the result of the step before on this lexer, lx0 the
\* fresh lexer; capture tells num_string from num_foreach
NumStep(r, lx0, capture) ==
    IF op # "new" /\ ~r.ok THEN r
    ELSE LET lx == IF op = "new" THEN lx0 ELSE r.lx
         IN  Let(ws_token(lx), LAMBDA t :
             LET pre == IF t.tok = "Minus" THEN <<MINUS>> ELSE <<>>
             IN  Let(CASE t.tok \notin {"Digit", "Minus"} ->
                            NumErr(Expect("Value"), t.lx)
                       [] capture -> num_string(t.lx, pre)
                       [] OTHER   -> num_foreach(t.lx),
                     LAMBDA n :
                 [ok |-> n.ok, err |-> n.err, parts |-> n.parts, text |-> n.text,
                  lx |-> n.lx, prefix |-> pre, before |-> Remaining(lx)]))

num_step ==
    /\ op = "new" \/ (op = "num" /\ (sv.ok \/ iv.ok \/ si.ok \/ ii.ok))
    /\ op' = "num"
    /\ arg' = arg + 1
    /\ sv' = NumStep(sv, SliceLexer_new(data), TRUE)
    /\ iv' = NumStep(iv, IterLexer_new(data), TRUE)
    /\ si' = NumStep(si, SliceLexer_new(data), FALSE)
    /\ ii' = NumStep(ii, IterLexer_new(data), FALSE)
    /\ UNCHANGED <<data, fed>>

NextNum == FeedNum \/ num_step

SpecNum == InitNum /\ [][NextNum]_vars

\* the grammar (0|[1-9][0-9]*)(.[0-9]+)?([eE][+-]?[0-9]+)?
AllDigits(s) == \A i \in 1..Len(s) : IsDigit(s[i])
IsIntPart(s) == Len(s) >= 1 /\ AllDigits(s) /\ (s[1] = ZERO => Len(s) = 1)
IsFracPart(s) == s = <<>> \/ (Len(s) >= 2 /\ s[1] = DOT /\ AllDigits(Tail(s)))
IsExpPart(s) ==
    \/ s = <<>>
    \/ /\ Len(s) >= 2
       /\ s[1] \in {101, 69}
       /\ LET d == IF s[2] \in {PLUS, MINUS} THEN Tail(Tail(s)) ELSE Tail(s)
          IN  Len(d) >= 1 /\ AllDigits(d)
IsNumber(s) ==
    \E i \in 1..Len(s) : \E j \in i..Len(s) :
        /\ IsIntPart(SubSeq(s, 1, i))
        /\ IsFracPart(SubSeq(s, i + 1, j))
        /\ IsExpPart(SubSeq(s, j + 1, Len(s)))

\* the bytes the step took from the input, the whitespace before them left out
Consumed(r) ==
    LET s1 == Drop(r.before, FirstIdx(r.before, 1, (0..255) \ {SP, HT, CR, LF}) - 1)
    IN  Take(s1, Len(s1) - Len(Remaining(r.lx)))

\* C3 (number grammar): whenever num_ignore, num_bytes or num_string
\* succeeds, on either source, the bytes consumed after the prefix match the
\* grammar (0|[1-9][0-9]*)(.[0-9]+)?([eE][+-]?[0-9]+)?, and the captured text
\* is the prefix ("" or "-") followed by them.
C3_NumberGrammar ==
    op = "num" =>
        /\ \A r \in {sv, iv} :
               r.ok => /\ r.text = Consumed(r)
                       /\ StartsWith(r.text, r.prefix)
                       /\ IsNumber(Drop(r.text, Len(r.prefix)))
        /\ \A r \in {si, ii} :
               r.ok => /\ Consumed(r) = r.prefix \o r.text
                       /\ IsNumber(r.text)

\* C3 witness: -1.2e3 is lexed whole, by num_string and by num_ignore
C3_Witness ==
    /\ op = "num"
    /\ sv.ok /\ sv.text = <<45, 49, 46, 50, 101, 51>> /\ sv.prefix = <<MINUS>>
    /\ si.ok /\ si.text = <<49, 46, 50, 101, 51>>

\* the longest prefix of s that is a number
LongestNumber(s) ==
    LET K == {k \in 1..Len(s) : IsNumber(Take(s, k))}
    IN  IF K = {} THEN 0 ELSE CHOOSE k \in K : \A j \in K : j <= k

\* r captured exactly the longest number at the head of the input it was
\* given, and left the lexer at the byte after it
Faithful(r) ==
    LET s1 == Drop(r.before, FirstIdx(r.before, 1, (0..255) \ {SP, HT, CR, LF}) - 1)
        s2 == Drop(s1, Len(r.prefix))
        n  == LongestNumber(s2)
    IN  /\ r.text = r.prefix \o Take(s2, n)
        /\ Remaining(r.lx) = Drop(s2, n)

\* C4 (textual fidelity): on success the text num_string returns is the
\* prefix followed by exactly the bytes of the number, and the lexer stops
\* at the first byte that cannot continue the number, on both sources.
C4_TextualFidelity ==
    op = "num" => \A r \in {sv, iv} : r.ok => Faithful(r)

\* C4 on the buffer source: 42abc yields 42 and leaves abc
C4_SliceWitness ==
    /\ op = "num" /\ arg = 1
    /\ data = <<52, 50, 97, 98, 99>>
    /\ sv.ok /\ sv.text = <<52, 50>> /\ Remaining(sv.lx) = <<97, 98, 99>>

\* the offsets of Parts are those of the '.' and the 'e' of the text
PartsOf(text, parts) ==
    LET dots == {i \in 1..Len(text) : text[i] = DOT}
        exps == {i \in 1..Len(text) : text[i] \in {101, 69}}
    IN  /\ dots = (IF parts.dot = 0 THEN {} ELSE {parts.dot + 1})
        /\ exps = (IF parts.exp = 0 THEN {} ELSE {parts.exp + 1})
        /\ parts.dot # 0 => parts.dot > 0 /\ parts.dot < Len(text)
        /\ parts.exp # 0 => parts.exp > 0 /\ parts.exp < Len(text)
        /\ (parts.dot # 0 /\ parts.exp # 0) => parts.dot < parts.exp
        /\ is_int(parts) <=> (dots = {} /\ exps = {})

\* C5 (Parts offsets): for every number num_string captures, on either
\* source, Parts.dot is the index in the text (the prefix counted) of the
\* '.', Parts.exp that of the 'e' or 'E'; each is greater than 0 and less
\* than the length of the text, dot < exp, and is_int() holds exactly when the
\* text has neither.  The text 3.14 has dot 1, 299e6 exp 3, 299.792e6 dot 3
\* and exp 7, -1.2e3 dot 2 and exp 4.
C5_PartsOffsets ==
    op = "num" =>
        /\ \A r \in {sv, iv} : r.ok => PartsOf(r.text, r.parts)
        /\ \A r \in {sv, iv} :
               /\ (r.ok /\ r.text = <<51, 46, 49, 52>>)
                      => r.parts = [dot |-> 1, exp |-> 0]
               /\ (r.ok /\ r.text = <<50, 57, 57, 101, 54>>)
                      => r.parts = [dot |-> 0, exp |-> 3]
               /\ (r.ok /\ r.text = <<50, 57, 57, 46, 55, 57, 50, 101, 54>>)
                      => r.parts = [dot |-> 3, exp |-> 7]
               /\ (r.ok /\ r.text = <<45, 49, 46, 50, 101, 51>>)
                      => r.parts = [dot |-> 2, exp |-> 4]

\* C5 witness: -1.2e3 is captured with dot 2 and exp 4
C5_Witness ==
    /\ op = "num"
    /\ data = <<45, 49, 46, 50, 101, 51>>
    /\ sv.ok /\ sv.text = data /\ sv.parts = [dot |-> 2, exp |-> 4]

-----------------------------------------------------------------------------
(* Strings: tests/tests.rs (strings).  The input is an opening quote and    *)
(* chunks of a string body; the step lexes it as the value parser does      *)
(* (ws_token, then str_string after Token::Quote) and as the ignore parser  *)
(* does (str_ignore), on both sources.                                      *)

MaxStrLen == 4

StrChunks ==
    { <<QUOTE>>, <<BACKSLASH>>, <<97>>, <<195>>, <<169>>, <<1>>,
      <<BACKSLASH, QUOTE>>, <<BACKSLASH, BACKSLASH>>, <<BACKSLASH, SLASH>>,
      <<BACKSLASH, 98>>, <<BACKSLASH, 102>>, <<BACKSLASH, 110>>,
      <<BACKSLASH, 114>>, <<BACKSLASH, 116>>,
      EscU(233, FALSE), EscU(233, TRUE), EscU(55297, TRUE), EscU(56375, TRUE),
      <<BACKSLASH, 117, ZERO, ZERO>> }

StrSeeds ==
    { <<QUOTE>>,
      <<QUOTE, 159, 146, 150>>,                                 \* tests.rs:168
      <<QUOTE>> \o EscU(55297, TRUE) \o EscU(56375, TRUE) \o <<QUOTE>>,
      <<QUOTE, 97, BACKSLASH, 110>> \o EscU(233, FALSE) \o <<QUOTE>>,
      <<QUOTE, BACKSLASH, QUOTE, BACKSLASH, BACKSLASH, BACKSLASH, SLASH,
        BACKSLASH, 98, BACKSLASH, 102, BACKSLASH, 110, BACKSLASH, 114,
        BACKSLASH, 116, QUOTE>> }                               \* tests.rs:139

InitStr == \E d \in StrSeeds : Start(d)

FeedStr == \E c \in StrChunks : Feed(c, MaxStrLen)

\* what is kept of a lexed string: the decoded bytes and the input left
StrOutcome(r, s) == [ok |-> r.ok, err |-> r.err, s |-> s, rest |-> Remaining(r.lx)]

str_step ==
    /\ op = "new"
    /\ op' = "str"
    /\ LET sl == ws_token(SliceLexer_new(data))
           il == ws_token(IterLexer_new(data))
       IN  /\ sl.tok = "Quote" /\ il.tok = "Quote"
           /\ sv' = Let(str_string(sl.lx), LAMBDA r : StrOutcome(r, r.out.s))
           /\ iv' = Let(str_string(il.lx), LAMBDA r : StrOutcome(r, r.out.s))
           /\ si' = StrOutcome(str_ignore(sl.lx), <<>>)
           /\ ii' = StrOutcome(str_ignore(il.lx), <<>>)
    /\ UNCHANGED <<data, fed, arg>>

NextStr == FeedStr \/ str_step

SpecStr == InitStr /\ [][NextStr]_vars

\* s[i], NoByte past the end
At(s, i) == IF i \in 1..Len(s) THEN s[i] ELSE NoByte

\* the value of a hexadecimal digit, 0 for any other byte
RefHexVal(c) ==
    LET lower == <<48, 49, 50, 51, 52, 53, 54, 55, 56, 57, 97, 98, 99, 100, 101, 102>>
        upper == <<48, 49, 50, 51, 52, 53, 54, 55, 56, 57, 65, 66, 67, 68, 69, 70>>
        I == {i \in 1..16 : lower[i] = c \/ upper[i] = c}
    IN  IF I = {} THEN 0 ELSE (CHOOSE i \in I : TRUE) - 1

RefIsHex(c) == c \in (48..57) \cup (97..102) \cup (65..70)

\* the four hexadecimal digits s[i..i+3], the most significant first
RefHex4(s, i) ==
    4096 * RefHexVal(At(s, i)) + 256 * RefHexVal(At(s, i + 1))
        + 16 * RefHexVal(At(s, i + 2)) + RefHexVal(At(s, i + 3))

RefIsHex4(s, i) == \A k \in 0..3 : RefIsHex(At(s, i + k))

\* the character of a literal escape, NoByte for any other byte
RefLit(c) ==
    CASE c = 34  -> 34
      [] c = 92  -> 92
      [] c = 47  -> 47
      [] c = 98  -> 8
      [] c = 102 -> 12
      [] c = 110 -> 10
      [] c = 114 -> 13
      [] c = 116 -> 9
      [] OTHER   -> NoByte

\* the code point of a surrogate pair
RefPair(high, low) == (high - 55296) * 1024 + (low - 56320) + 65536

\* The reference reading of a string whose opening quote is s[1]: out is
\* the decoding of the body up to the first fault or the closing quote, and
\* fault names the first fault ("" if there is none):
\*   "Utf8"  a raw run that is not UTF-8       "Control"  a control byte
\*   "Eof"   the input ends before the quote   "Escape"   a wrong escape
RefStr(s) ==
    LET stop(i) == FirstIdx(s, i, {BACKSLASH, QUOTE} \cup (0..31))
        f[i \in 1..(Len(s) + 2)] ==
            LET j    == stop(i)
                run  == SubSeq(s, i, j - 1)
                c    == At(s, j)
                k    == At(s, j + 1)
                u    == RefHex4(s, j + 2)
                low  == RefHex4(s, j + 8)
                cont(n, bytes) ==
                    LET r == f[j + n]
                    IN  [fault |-> r.fault, out |-> run \o bytes \o r.out]
                end(e) == [fault |-> e, out |-> run]
            IN  CASE i > Len(s)          -> [fault |-> "Eof", out |-> <<>>]
                  [] ~from_utf8(run).ok  -> [fault |-> "Utf8", out |-> <<>>]
                  [] c = NoByte          -> end("Eof")
                  [] c = QUOTE           -> end("")
                  [] c # BACKSLASH       -> end("Control")
                  [] RefLit(k) # NoByte  -> cont(2, <<RefLit(k)>>)
                  [] k # 117 \/ ~RefIsHex4(s, j + 2) -> end("Escape")
                  [] u \in 56320..57343  -> end("Escape")
                  [] u \notin 55296..56319 -> cont(6, encode_utf8(u))
                  [] /\ At(s, j + 6) = BACKSLASH /\ At(s, j + 7) = 117
                     /\ RefIsHex4(s, j + 8) /\ low \in 56320..57343
                                         -> cont(12, encode_utf8(RefPair(u, low)))
                  [] OTHER               -> end("Escape")
    IN  f[2]

\* C6 (decoded string content): every string str_string accepts, on either
\* source, decodes to the reference decoding of its body in input order: raw
\* runs verbatim, each of the eight literal escapes as its character, each
\* \uXXXX as the code point of its four hexadecimal digits (either case,
\* the most significant first).
C6_DecodedContent ==
    op = "str" =>
        \A r \in {sv, iv} :
            r.ok => (RefStr(data).fault = "" /\ r.s = RefStr(data).out)

\* C6 witness: "a\né" is accepted and decoded to a, U+000A, U+00E9
C6_Witness ==
    /\ op = "str"
    /\ data = <<QUOTE, 97, BACKSLASH, 110>> \o EscU(233, FALSE) \o <<QUOTE>>
    /\ sv.ok /\ sv.s = <<97, 10, 195, 169>>

\* C8 (UTF-8 validity of the decoded tier): str_string returns Ok only if
\* every raw run of the body is UTF-8, every string it returns is UTF-8, and
\* a string whose first fault is a raw run that is not UTF-8 fails with
\* Str::Utf8, on both sources.
C8_Utf8Validity ==
    op = "str" =>
        \A r \in {sv, iv} :
            /\ r.ok => (RefStr(data).fault # "Utf8" /\ from_utf8(r.s).ok)
            /\ RefStr(data).fault = "Utf8" =>
                   (~r.ok /\ r.err.cat = "Str" /\ r.err.kind = "Utf8")

\* C8 on the buffer source alone: the bytes 22 9F 92 96 fail with Str::Utf8
C8_SliceWitness ==
    /\ op = "str"
    /\ data = <<QUOTE, 159, 146, 150>>
    /\ ~sv.ok /\ sv.err = Utf8([valid_up_to |-> 0, error_len |-> 1])

-----------------------------------------------------------------------------
(* Surrogate pairs: tests/tests.rs:144-149.  The input is \uXXXX of a high  *)
(* surrogate followed by one more \uYYYY; the step reads the first escape   *)
(* (Lex::escape, its backslash taken) and hands it to escape_char, on both  *)
(* sources; it also lexes the two escapes as a whole string (str_string).   *)

MaxPairLen == 2

PairLows == {56320, 56375, 57343, 56319, 65, 57344}

InitPair ==
    \E high \in 55296..56319 : \E upper \in BOOLEAN :
        /\ data = EscU(high, upper)
        /\ fed = 1
        /\ op = "new"
        /\ arg = 0
        /\ sv = NoRes /\ iv = NoRes /\ si = NoRes /\ ii = NoRes

FeedPair == \E low \in PairLows : Feed(EscU(low, TRUE), MaxPairLen)

\* the escape at the head of the input, as a char
Decode(lx) ==
    Let(take_next(lx), LAMBDA t :
        IF t.b # BACKSLASH THEN [ok |-> FALSE, err |-> EscapeError("Eof", 0), v |-> 0]
        ELSE Let(escape(t.lx), LAMBDA e :
             IF ~e.ok THEN [ok |-> FALSE, err |-> e.err, v |-> 0]
             ELSE Let(escape_char(e.lx, e.esc), LAMBDA c :
                  [ok |-> c.ok, err |-> c.err, v |-> c.c.v])))

pair_step ==
    /\ op = "new"
    /\ fed = MaxPairLen
    /\ op' = "pair"
    /\ sv' = Decode(SliceLexer_new(data))
    /\ iv' = Decode(IterLexer_new(data))
    /\ LET whole == <<QUOTE>> \o data \o <<QUOTE>>
       IN  /\ si' = Let(str_string(ws_token(SliceLexer_new(whole)).lx),
                        LAMBDA r : StrOutcome(r, r.out.s))
           /\ ii' = Let(str_string(ws_token(IterLexer_new(whole)).lx),
                        LAMBDA r : StrOutcome(r, r.out.s))
    /\ UNCHANGED <<data, fed, arg>>

NextPair == FeedPair \/ pair_step

SpecPair == InitPair /\ [][NextPair]_vars

\* C7 (surrogate pairing): \uXXXX of a high surrogate (0xD800..=0xDBFF)
\* followed by \uYYYY of a low surrogate (0xDC00..=0xDFFF) decodes to the
\* code point (high - 0xD800) * 0x400 + (low - 0xDC00) + 0x10000, which lies
\* in 0x10000..=0x10FFFF, as a char (escape_char) and within a string
\* (str_string), on both sources.
C7_SurrogatePairing ==
    (op = "pair" /\ RefHex4(data, 9) \in 56320..57343) =>
        LET cp == RefPair(RefHex4(data, 3), RefHex4(data, 9))
        IN  /\ cp \in 65536..1114111
            /\ \A r \in {sv, iv} : r.ok /\ r.v = cp
            /\ \A r \in {si, ii} : r.ok /\ r.s = encode_utf8(cp)

\* C7 on the buffer source alone: D801/DC37 decodes to U+10437
C7_SliceWitness ==
    /\ op = "pair"
    /\ data = EscU(55297, TRUE) \o EscU(56375, TRUE)
    /\ sv.ok /\ sv.v = 66615
    /\ si.ok /\ si.s = <<240, 144, 144, 183>>

-----------------------------------------------------------------------------
(* Objects: tests/tests.rs (objects).  The inputs start with `{` and go on  *)
(* with the chunks { } "a" : , 0 and space, so that every chunk but the     *)
(* space is one token; "a" is a key or a string value.                      *)

MaxObjLen == 6

KeyA == <<QUOTE, 97, QUOTE>>

ObjChunks ==
    { <<LCURLY>>, <<RCURLY>>, KeyA, <<COLON>>, <<COMMA>>, <<ZERO>>, <<SP>> }

InitObj == Start(<<LCURLY>>)

FeedObj == \E c \in ObjChunks : Feed(c, MaxObjLen)

NextObj == FeedObj \/ fuzz_target

SpecObj == InitObj /\ [][NextObj]_vars

\* the tokens of an input made of these chunks: the opening quote stands
\* for the string "a"
ObjTokens(s) ==
    LET keep(i) == /\ s[i] \notin {SP, 97}
                   /\ ~(s[i] = QUOTE /\ i > 1 /\ s[i - 1] = 97)
        f[i \in 0..Len(s)] ==
            IF i = 0 THEN <<>>
            ELSE IF keep(i) THEN Append(f[i - 1], s[i]) ELSE f[i - 1]
    IN  f[Len(s)]

\* The grammar of a document whose containers are objects, token by token.
\* mode is what is awaited:
\*   "Doc"  the value of the document     "KE"  a first key or the end
\*   "Col"  the colon after a key         "Val" the value after a colon
\*   "CE"   a comma or the end            "K"   a key (after a comma)
\*   "Eof"  nothing more                  "Err" (the fault is in err)
\* open is the number of objects not closed yet.
ObjStep(q, c) ==
    LET fail(e) == [q EXCEPT !.mode = "Err", !.err = e]
        value   == [q EXCEPT !.mode = IF q.open = 0 THEN "Eof" ELSE "CE"]
        opened  == [q EXCEPT !.mode = "KE", !.open = @ + 1]
        closed  == [q EXCEPT !.mode = IF q.open = 1 THEN "Eof" ELSE "CE",
                             !.open = @ - 1]
    IN  CASE q.mode = "Err" -> q
          [] q.mode = "Eof" -> fail("Eof")
          [] q.mode = "CE"  -> CASE c = RCURLY -> closed
                                 [] c = COMMA  -> [q EXCEPT !.mode = "K"]
                                 [] OTHER      -> fail("CommaOrEnd")
          [] q.mode = "Col" -> IF c = COLON THEN [q EXCEPT !.mode = "Val"]
                               ELSE fail("Colon")
          [] q.mode = "KE" /\ c = RCURLY -> closed
          [] q.mode \in {"KE", "K"} ->
               IF c = QUOTE THEN [q EXCEPT !.mode = "Col"] ELSE fail("String")
          [] c \in {ZERO, QUOTE} -> value
          [] c = LCURLY          -> opened
          [] OTHER               -> fail("Value")

ObjRun(s) ==
    LET toks == ObjTokens(s)
        f[i \in 0..Len(toks)] ==
            IF i = 0 THEN [mode |-> "Doc", open |-> 0, err |-> ""]
            ELSE ObjStep(f[i - 1], toks[i])
    IN  f[Len(toks)]

\* what the grammar says of the input: "" if it is a document, else the fault
ObjFault(s) ==
    LET q == ObjRun(s)
    IN  CASE q.mode = "Err" -> q.err
          [] q.mode = "Eof" -> ""
          [] q.mode = "KE"  -> "ValueOrEnd"
          [] q.mode = "Col" -> "Colon"
          [] q.mode = "CE"  -> "CommaOrEnd"
          [] OTHER          -> "Value"

\* r is the result the grammar of objects gives for the input
ObjFollows(r, s) ==
    IF ObjFault(s) = "" THEN r.ok ELSE ~r.ok /\ r.err = Expect(ObjFault(s))

\* C11 (object entry protocol): in the value and the ignore parser, on both
\* sources, an object entry is a string key, optional whitespace, `:`,
\* optional whitespace, a value: an entry whose first token is not `"` fails
\* with Expect::String, a key not followed by `:` with Expect::Colon, the
\* input ending after the colon with Expect::Value, the input ending after
\* an entry with CommaOrEnd and after a comma with Value.
C11_ObjectEntryProtocol ==
    op = "fuzz" =>
        /\ ObjFollows(sv, data) /\ ObjFollows(iv, data)
        /\ ObjFollows(si, data) /\ ObjFollows(ii, data)

\* C11 on the buffer source and in the ignore parser of the stream source:
\* `{"a" 0` fails with Expect::Colon there
C11_SliceWitness ==
    /\ op = "fuzz"
    /\ data = <<LCURLY>> \o KeyA \o <<SP, ZERO>>
    /\ sv.err = Expect("Colon") /\ si.err = Expect("Colon")
    /\ ii.err = Expect("Colon")
    /\ ObjFollows(sv, data) /\ ObjFollows(si, data) /\ ObjFollows(ii, data)

-----------------------------------------------------------------------------
(* Whole documents: exactly_one and its production (tests/tests.rs, basic)  *)

AllWhitespace(s) == \A i \in 1..Len(s) : IsWhitespace(s[i])

\* r is what exactly_one owes for the production named tag on the lexer lx:
\* the production runs on the first token; if it fails so does exactly_one,
\* with its error; if it succeeds with v, then Ok(v) when only whitespace
\* remains and Expect::Eof otherwise
ExactlyOneOf(r, lx, tag) ==
    Let(ws_token(lx), LAMBDA t :
        IF t.tok = "None" THEN TRUE
        ELSE Let(item(tag, 0, t.tok, t.lx), LAMBDA p :
             CASE ~p.ok -> ~r.ok /\ r.err = p.err
               [] AllWhitespace(Remaining(p.lx)) -> r.ok /\ r.v = p.v
               [] OTHER -> ~r.ok /\ r.err = Expect("Eof")))

\* C12 (exactly-one): exactly_one returns Ok(v) iff the production succeeds
\* with v and only whitespace remains up to the end of the input; a
\* non-whitespace byte after the value makes it fail with Expect::Eof, and
\* an empty or whitespace-only input with Expect::Value.
C12_ExactlyOne ==
    op = "fuzz" =>
        /\ ExactlyOneOf(sv, SliceLexer_new(data), "value")
        /\ ExactlyOneOf(iv, IterLexer_new(data), "value")
        /\ ExactlyOneOf(si, SliceLexer_new(data), "ignore")
        /\ ExactlyOneOf(ii, IterLexer_new(data), "ignore")
        /\ AllWhitespace(data) =>
               \A r \in {sv, iv, si, ii} : ~r.ok /\ r.err = Expect("Value")

\* C12 witness: `null null` fails with Expect::Eof, the production having
\* succeeded with Null
C12_Witness ==
    /\ op = "fuzz"
    /\ data = <<110, 117, 108, 108, SP, 110, 117, 108, 108>>
    /\ \A r \in {sv, iv, si, ii} : ~r.ok /\ r.err = Expect("Eof")
    /\ item("value", 0, "Letter", SliceLexer_new(data)).ok

-----------------------------------------------------------------------------
(* Literals: tests/tests.rs (basic).  The input is made of letters; a step  *)
(* runs null_or_bool where the value and the ignore parser run it, after    *)
(* ws_token has shown a letter, on both sources.                            *)

MaxLitLen == 4

LitChunks ==
    { <<110>>, <<117>>, <<108>>, <<116>>, <<114>>, <<101>>, <<102>>, <<97>>,
      <<115>>, <<78>>, <<110, 117, 108>>, <<116, 114, 117>>,
      <<102, 97, 108, 115>> }

InitLit == Start(<<>>)

FeedLit == \E c \in LitChunks : Feed(c, MaxLitLen)

\* null_or_bool after ws_token: what it yields and what input is left
LitOutcome(lx) ==
    Let(null_or_bool(ws_token(lx).lx), LAMBDA r :
        [ok |-> r.v # "none", err |-> NoErr, v |-> r.v, rest |-> Remaining(r.lx)])

lit_step ==
    /\ op = "new"
    /\ data # <<>>
    /\ op' = "lit"
    /\ sv' = LitOutcome(SliceLexer_new(data))
    /\ iv' = LitOutcome(IterLexer_new(data))
    /\ UNCHANGED <<data, fed, arg, si, ii>>

NextLit == FeedLit \/ lit_step \/ fuzz_target

SpecLit == InitLit /\ [][NextLit]_vars

\* the three literals, by what null_or_bool yields for them
Literal(v) ==
    CASE v = "null"  -> <<110, 117, 108, 108>>
      [] v = "true"  -> <<116, 114, 117, 101>>
      [] OTHER       -> <<102, 97, 108, 115, 101>>

\* the literals the input starts with (at most one)
LiteralsAt(s) == {v \in {"null", "true", "false"} : StartsWith(s, Literal(v))}

-----------------------------------------------------------------------------
(* Numbers, continued: where a digit is required *)

\* the input the number lexer of step r was called on, after the
\* whitespace and the `-` that ws_token took
NumInput(r) ==
    LET s1 == Drop(r.before, FirstIdx(r.before, 1, (0..255) \ {SP, HT, CR, LF}) - 1)
    IN  Drop(s1, Len(r.prefix))

\* the number lexer was called in step r: the first token was a digit or `-`
NumCalled(r) ==
    LET s1 == Drop(r.before, FirstIdx(r.before, 1, (0..255) \ {SP, HT, CR, LF}) - 1)
    IN  s1 # <<>> /\ (IsDigit(s1[1]) \/ s1[1] = MINUS)

\* a digit is required and absent in s: at its start, directly after the `.`
\* that follows the integer part, or directly after the `e` or `E` (and its
\* sign) that follows the integer or the fraction part
DigitMissing(s) ==
    LET n    == LongestNumber(s)
        num  == Take(s, n)
        next == IF n < Len(s) THEN s[n + 1] ELSE NoByte
        has(S) == \E i \in 1..n : num[i] \in S
    IN  \/ n = 0
        \/ next = DOT /\ ~has({DOT, 101, 69})
        \/ next \in {101, 69} /\ ~has({101, 69})

\* C14 (ExpectedDigit is the sole number error): the number lexer, in the
\* ignoring and the capturing tier and on both sources, fails exactly when a
\* digit is required and absent (at the start of the number, directly after
\* `.`, directly after `e` or `E`, directly after the exponent sign), and
\* then with ExpectedDigit.
C14_ExpectedDigitOnly ==
    op = "num" =>
        \A r \in {sv, iv, si, ii} :
            NumCalled(r) =>
                /\ ~r.ok <=> DigitMissing(NumInput(r))
                /\ ~r.ok => r.err = ExpectedDigit

\* C14 on the buffer source: `1.` fails with ExpectedDigit in both tiers
C14_SliceWitness ==
    /\ op = "num"
    /\ data = <<49, DOT>>
    /\ sv.before = data /\ si.before = data
    /\ ~sv.ok /\ sv.err = ExpectedDigit
    /\ ~si.ok /\ si.err = ExpectedDigit

-----------------------------------------------------------------------------
(* Strings in the three tiers: str_ignore, str_bytes and str_string, each   *)
(* called just after the opening quote (tests/tests.rs, strings and         *)
(* binary_strings).  The chunks of SpecStr, and a NUL, a 0x1F, an X and a U.*)

RawChunks == StrChunks \cup { <<0>>, <<31>>, <<88>>, <<85>> }

FeedRaw == \E c \in RawChunks : Feed(c, MaxStrLen)

\* the raw tier: ws_token, then str_bytes after Token::Quote, on both
\* sources; s is the bytes written
raw_step ==
    /\ op = "new"
    /\ op' = "raw"
    /\ LET sl == ws_token(SliceLexer_new(data))
           il == ws_token(IterLexer_new(data))
       IN  /\ sl.tok = "Quote" /\ il.tok = "Quote"
           /\ sv' = Let(str_bytes(sl.lx), LAMBDA r : StrOutcome(r, r.bytes))
           /\ iv' = Let(str_bytes(il.lx), LAMBDA r : StrOutcome(r, r.bytes))
    /\ UNCHANGED <<data, fed, arg, si, ii>>

NextRaw == FeedRaw \/ str_step \/ raw_step

SpecRaw == InitStr /\ [][NextRaw]_vars

\* the index of the first unescaped quote of the string whose opening quote
\* is s[1] (a backslash escapes the byte after it), 0 if there is none
RefClose(s) ==
    LET f[i \in 2..(Len(s) + 2)] ==
            CASE i > Len(s)       -> 0
              [] s[i] = BACKSLASH -> f[i + 2]
              [] s[i] = QUOTE     -> i
              [] OTHER            -> f[i + 1]
    IN  f[2]

\* C15 (string termination): whenever str_ignore, str_bytes or str_string
\* returns Ok, on either source, the lexer stands immediately after the
\* first unescaped quote of the string: the closing quote is consumed and
\* no byte after it is.
C15_StringTermination ==
    op \in {"str", "raw"} =>
        \A r \in {sv, iv, si, ii} :
            r.ok => /\ RefClose(data) > 0
                    /\ r.rest = Drop(data, RefClose(data))

\* C15 witness: of `"a""` str_bytes takes `"a"` and leaves the last quote
C15_Witness ==
    /\ op = "raw"
    /\ data = <<QUOTE, 97, QUOTE, QUOTE>>
    /\ sv.ok /\ sv.s = <<97>> /\ sv.rest = <<QUOTE>>

\* The first fault of the string whose opening quote is s[1], read byte by
\* byte without decoding it ("" if it ends with an unescaped quote):
\*   "Control"      an unescaped byte in 0x00..=0x1F
\*   "Eof"          the input ends outside an escape
\*   "EscapeEof"    the input ends directly after `\` or inside \uXXXX
\*   "InvalidKind"  `\` followed by neither a literal leader nor `u`
\*   "InvalidHex"   \u followed, within four bytes, by no hexadecimal digit
RefFirstFault(s) ==
    LET hex(i) ==
            LET bad == {k \in 0..3 : ~RefIsHex(At(s, i + k))}
            IN  IF bad = {} THEN ""
                ELSE IF At(s, i + Min(bad)) = NoByte THEN "EscapeEof"
                ELSE "InvalidHex"
        f[i \in 2..(Len(s) + 6)] ==
            CASE i > Len(s)            -> "Eof"
              [] s[i] = QUOTE          -> ""
              [] s[i] \in 0..31        -> "Control"
              [] s[i] # BACKSLASH      -> f[i + 1]
              [] At(s, i + 1) = NoByte -> "EscapeEof"
              [] RefLit(At(s, i + 1)) # NoByte -> f[i + 2]
              [] At(s, i + 1) # 117    -> "InvalidKind"
              [] hex(i + 2) # ""       -> hex(i + 2)
              [] OTHER                 -> f[i + 6]
    IN  f[2]

\* the result r is the one the claim gives a string with this first fault
Classified(r, fault) ==
    CASE fault = ""            -> r.ok
      [] fault = "Control"     -> ~r.ok /\ r.err = StrError("Control")
      [] fault = "Eof"         -> ~r.ok /\ r.err = StrError("Eof")
      [] fault = "EscapeEof"   -> ~r.ok /\ r.err = EscapeError("Eof", 0)
      [] fault = "InvalidKind" -> ~r.ok /\ r.err.cat = "Escape"
                                        /\ r.err.kind = "InvalidKind"
      [] OTHER                 -> ~r.ok

\* C16 (string error classification): in the ignoring, the raw and the
\* decoded tier and on both sources, a string whose first fault is an
\* unescaped byte in 0x00..=0x1F fails with Str::Control, the input ending
\* outside an escape with Str::Eof, the input ending directly after `\` or
\* inside \uXXXX with Escape(Eof), and an escape leader that is neither a
\* literal leader nor `u` with Escape(InvalidKind); the decoded tier may
\* have failed before with a Unicode error.
C16_StringErrorClasses ==
    /\ op = "str" =>
           /\ \A r \in {si, ii} : Classified(r, RefFirstFault(data))
           /\ \A r \in {sv, iv} :
                  is_unicode_error(r.err) \/ Classified(r, RefFirstFault(data))
    /\ op = "raw" =>
           \A r \in {sv, iv} : Classified(r, RefFirstFault(data))

\* C16 on the buffer source, and in the ignoring tier of the stream source:
\* a NUL in the string fails with Str::Control
C16_SliceWitness ==
    /\ op = "str"
    /\ data = <<QUOTE, 97, 0, QUOTE>>
    /\ sv.err = StrError("Control") /\ si.err = StrError("Control")
    /\ ii.err = StrError("Control")

\* The first orphan surrogate of the string whose opening quote is s[1],
\* read escape by escape up to its first fault: k is "Low" for a \uXXXX
\* escape in 0xDC00..=0xDFFF that no high surrogate precedes (v its value),
\* "High" for one in 0xD800..=0xDBFF that `\u` and four hexadecimal digits
\* with a value in 0xDC00..=0xDFFF do not follow, "None" if there is none.
RefOrphan(s) ==
    LET none == [k |-> "None", v |-> 0]
        low(i) == /\ At(s, i) = BACKSLASH /\ At(s, i + 1) = 117
                  /\ RefIsHex4(s, i + 2)
                  /\ RefHex4(s, i + 2) \in 56320..57343
        f[i \in 2..(Len(s) + 12)] ==
            CASE i > Len(s)                       -> none
              [] s[i] = QUOTE \/ s[i] \in 0..31   -> none
              [] s[i] # BACKSLASH                 -> f[i + 1]
              [] RefLit(At(s, i + 1)) # NoByte    -> f[i + 2]
              [] At(s, i + 1) # 117               -> none
              [] ~RefIsHex4(s, i + 2)             -> none
              [] RefHex4(s, i + 2) \in 56320..57343 ->
                   [k |-> "Low", v |-> RefHex4(s, i + 2)]
              [] RefHex4(s, i + 2) \in 55296..56319 ->
                   IF low(i + 6) THEN f[i + 12] ELSE [k |-> "High", v |-> 0]
              [] OTHER                            -> f[i + 6]
    IN  f[2]

\* the UTF-8 string s holds the encoding of a code point in 0xD800..=0xDFFF
\* (0xED, then a byte in 0xA0..=0xBF)
HasSurrogate(s) == \E i \in 1..(Len(s) - 1) : s[i] = 237 /\ s[i + 1] \in 160..191

\* C17 (orphan surrogates): in the decoded tier, a string whose first orphan
\* surrogate is a low one reached as the primary escape fails with
\* InvalidChar carrying its value, one whose first orphan surrogate is a
\* high one not followed by `\u` and a value in 0xDC00..=0xDFFF fails with
\* ExpectedLowSurrogate (unless invalid UTF-8 before it has failed first),
\* and no decoded string holds a code point in 0xD800..=0xDFFF.
C17_OrphanSurrogates ==
    op = "str" =>
        \A r \in {sv, iv} :
            /\ r.ok => ~HasSurrogate(r.s)
            /\ Let(RefOrphan(data), LAMBDA o :
                   \/ o.k = "None"
                   \/ ~r.ok /\ r.err.cat = "Str" /\ r.err.kind = "Utf8"
                   \/ o.k = "Low" /\ ~r.ok /\ r.err = EscapeError("InvalidChar", o.v)
                   \/ o.k = "High" /\ ~r.ok
                        /\ r.err = EscapeError("ExpectedLowSurrogate", 0))

\* C17 on the buffer source: `"\uDC37"` fails with InvalidChar(0xDC37)
C17_SliceWitness ==
    /\ op = "str"
    /\ data = <<QUOTE>> \o EscU(56375, TRUE) \o <<QUOTE>>
    /\ sv.err = EscapeError("InvalidChar", 56375)

-----------------------------------------------------------------------------
(* SpecCow: str_string on both sources over the inputs of SpecStr, keeping   *)
(* whether the string returned is owned or borrowed from the input.          *)

\* what is kept of str_string's result: the decoded bytes, whether they are
\* owned, and the input left
CowOutcome(r) ==
    [ok |-> r.ok, err |-> r.err, s |-> r.out.s, owned |-> r.out.owned,
     rest |-> Remaining(r.lx)]

cow_step ==
    /\ op = "new"
    /\ op' = "cow"
    /\ LET sl == ws_token(SliceLexer_new(data))
           il == ws_token(IterLexer_new(data))
       IN  /\ sl.tok = "Quote" /\ il.tok = "Quote"
           /\ sv' = CowOutcome(str_string(sl.lx))
           /\ iv' = CowOutcome(str_string(il.lx))
    /\ UNCHANGED <<data, fed, arg, si, ii>>

NextCow == FeedStr \/ cow_step

SpecCow == InitStr /\ [][NextCow]_vars

\* the body of the string whose opening quote is s[1]: the bytes between it
\* and the closing quote
RefBody(s) == SubSeq(s, 2, RefClose(s) - 1)

\* C18 (copy-on-write): a string SliceLexer::str_string returns is owned if
\* and only if its body contains an escape sequence, and otherwise borrowed
\* and equal to the body as it stands in the input; a string
\* IterLexer::str_string returns is owned.
C18_CopyOnWrite ==
    op = "cow" =>
        /\ sv.ok => /\ sv.owned <=> (\E i \in DOMAIN RefBody(data) :
                                        RefBody(data)[i] = BACKSLASH)
                    /\ ~sv.owned => sv.s = RefBody(data)
        /\ iv.ok => iv.owned

\* C18: `"a\n"` decodes to an owned string on the buffer source
C18_Witness ==
    /\ op = "cow"
    /\ data = <<QUOTE, 97, BACKSLASH, 110, QUOTE>>
    /\ sv.ok /\ sv.owned /\ sv.s = <<97, 10>>

-----------------------------------------------------------------------------
(* SpecWrite: write_until, append_until and take_next called in turn on a    *)
(* SliceLexer and on an IterLexer over the same input, with the stop         *)
(* closures of write.rs's example and of str_fold.  A result keeps the       *)
(* lexer lx, the captured bytes (cap their range of the buffer on the slice  *)
(* source), and of the last call its name, its stop closure, the bytes old   *)
(* it was handed and the input before that it had not consumed.              *)

MaxWriteLen == 4
MaxWriteOps == 3

WriteBytes == { 72, SP, QUOTE }

WriteStops == { "space", "never", "string_end" }

InitWrite == Start(<<>>)

FeedWrite == \E c \in WriteBytes : Feed(<<c>>, MaxWriteLen)

NoCap == [ptr |-> 0, len |-> 0]

\* the lexers and the bytes before the first call
WriteNew(lx) ==
    [lx |-> lx, cap |-> NoCap, bytes |-> <<>>, call |-> "new", stop |-> "",
     old |-> <<>>, before |-> Remaining(lx), panic |-> FALSE]

SliceNow == IF op = "new" THEN WriteNew(SliceLexer_new(data)) ELSE sv
IterNow == IF op = "new" THEN WriteNew(IterLexer_new(data)) ELSE iv

Slice_captured(w, call, stop, r) ==
    [lx |-> r.lx, cap |-> r.bytes, bytes |-> SliceBytes(r.lx, r.bytes),
     call |-> call, stop |-> stop, old |-> w.bytes, before |-> Remaining(w.lx),
     panic |-> r.panic]

Iter_captured(w, call, stop, r) ==
    [lx |-> r.lx, cap |-> NoCap, bytes |-> r.bytes,
     call |-> call, stop |-> stop, old |-> w.bytes, before |-> Remaining(w.lx),
     panic |-> r.panic]

write_until_step ==
    /\ op \in {"new", "write"}
    /\ arg < MaxWriteOps
    /\ \E stop \in WriteStops :
           /\ sv' = Slice_captured(SliceNow, "write_until", stop,
                                   Slice_write_until(SliceNow.lx, 0, stop))
           /\ iv' = Iter_captured(IterNow, "write_until", stop,
                                  Iter_write_until(IterNow.lx, 0, stop))
    /\ op' = "write"
    /\ arg' = arg + 1
    /\ UNCHANGED <<data, fed, si, ii>>

\* append_until is called with bytes a suffix of the input consumed so far
\* (write.rs:31), as write_until and append_until leave them
append_until_step ==
    /\ op = "write"
    /\ arg < MaxWriteOps
    /\ sv.cap.ptr + sv.cap.len = sv.lx.off
    /\ \E stop \in WriteStops :
           /\ sv' = Slice_captured(sv, "append_until", stop,
                                   Slice_append_until(sv.lx, sv.cap, 0, stop))
           /\ iv' = Iter_captured(iv, "append_until", stop,
                                  Iter_append_until(iv.lx, iv.bytes, 0, stop))
    /\ arg' = arg + 1
    /\ UNCHANGED <<data, fed, op, si, ii>>

\* take_next between two captures, as str_fold takes the byte that ended one
take_next_step ==
    /\ op = "write"
    /\ arg < MaxWriteOps
    /\ sv' = [sv EXCEPT !.lx = Slice_take_next(sv.lx).lx, !.call = "take_next",
                        !.before = Remaining(sv.lx)]
    /\ iv' = [iv EXCEPT !.lx = Iter_take_next(iv.lx).lx, !.call = "take_next",
                        !.before = Remaining(iv.lx)]
    /\ arg' = arg + 1
    /\ UNCHANGED <<data, fed, op, si, ii>>

NextWrite == FeedWrite \/ write_until_step \/ append_until_step \/ take_next_step

SpecWrite == InitWrite /\ [][NextWrite]_vars

\* the bytes a stop closure is true for
RefStopSet(stop) ==
    CASE stop = "space" -> {SP}
      [] stop = "never" -> {}
      [] OTHER          -> {QUOTE, BACKSLASH} \cup (0..31)

\* the bytes of s before the first one in S, all of s if there is none
RefUpTo(s, S) == Take(s, FirstIdx(s, 1, S) - 1)

\* w is what the claim gives for the call it records
Captured(w) ==
    LET run == RefUpTo(w.before, RefStopSet(w.stop))
    IN  /\ ~w.panic
        /\ w.call = "write_until"  => w.bytes = run
        /\ w.call = "append_until" => w.bytes = w.old \o run
        /\ Remaining(w.lx) = Drop(w.before, Len(run))

\* C19 (capture sink and zero-copy): write_until replaces bytes with the
\* input from the cursor up to, excluding, the first byte stop is true for
\* (all of it if there is none) and leaves that byte as the next one;
\* append_until extends bytes instead; the slice and the iterator source
\* yield equal bytes and equal cursors; and a capture of the slice source is
\* a range of the buffer that ends at the cursor.
C19_CaptureSink ==
    (op = "write" /\ sv.call \in {"write_until", "append_until"}) =>
        /\ Captured(sv)
        /\ Captured(iv)
        /\ sv.bytes = iv.bytes
        /\ Remaining(sv.lx) = Remaining(iv.lx)
        /\ sv.cap.ptr + sv.cap.len = sv.lx.off
        /\ sv.bytes = SubSeq(data, sv.cap.ptr + 1, sv.cap.ptr + sv.cap.len)

\* C19 on the buffer source, as in write.rs's example: after `H` was
\* captured up to the space, write_until with a stop that is never true
\* replaces it with the rest, ` H`
C19_SliceWitness ==
    /\ op = "write"
    /\ data = <<72, SP, 72>>
    /\ sv.call = "write_until" /\ sv.stop = "never"
    /\ sv.old = <<72>>
    /\ sv.bytes = <<SP, 72>>
    /\ Remaining(sv.lx) = <<>>

-----------------------------------------------------------------------------
(* SpecOrd: documents of arrays and objects with several children, among     *)
(* them objects with a repeated key, written without whitespace and with     *)
(* strings without escapes, parsed as the fuzz target does.                  *)

MaxOrdLen == 5

KeyColon(k) == <<QUOTE, k, QUOTE, COLON>>

OrdChunks ==
    { <<LSQUARE>>, <<RSQUARE>>, <<RCURLY>>, <<COMMA>>, <<ZERO>>, <<49>>,
      KeyColon(97) \o <<ZERO>>, KeyColon(97) \o <<49>>, KeyColon(98) \o <<LSQUARE>> }

InitOrd == \E d \in { <<LSQUARE>>, <<LCURLY>> } : Start(d)

FeedOrd == \E c \in OrdChunks : Feed(c, MaxOrdLen)

NextOrd == FeedOrd \/ fuzz_target

SpecOrd == InitOrd /\ [][NextOrd]_vars

\* the elements of the sequence of byte strings ss, with sep between them
RECURSIVE RefJoin(_, _)
RefJoin(ss, sep) ==
    CASE ss = <<>>   -> <<>>
      [] Len(ss) = 1 -> ss[1]
      [] OTHER       -> ss[1] \o sep \o RefJoin(Tail(ss), sep)

\* the JSON text of the value v, its children written in the order v holds
\* them: numbers as lexed, strings between quotes, no whitespace
RECURSIVE RefText(_)
RefText(v) ==
    CASE v.t = "Null"   -> <<110, 117, 108, 108>>
      [] v.t = "Bool"   -> IF v.b THEN <<116, 114, 117, 101>>
                           ELSE <<102, 97, 108, 115, 101>>
      [] v.t = "Number" -> v.s
      [] v.t = "String" -> <<QUOTE>> \o v.s \o <<QUOTE>>
      [] v.t = "Array"  ->
           <<LSQUARE>> \o RefJoin([i \in DOMAIN v.kids |-> RefText(v.kids[i])],
                                  <<COMMA>>) \o <<RSQUARE>>
      [] OTHER ->
           <<LCURLY>> \o RefJoin([i \in DOMAIN v.kids |->
                                     <<QUOTE>> \o v.keys[i] \o <<QUOTE, COLON>>
                                         \o RefText(v.kids[i])],
                                 <<COMMA>>) \o <<RCURLY>>

\* C20 (order preservation): a Value the value parser returns holds the
\* children of every array and the (key, value) pairs of every object in the
\* order of the input text, repeated keys included: written out in the order
\* it holds them, the value is the input text again.
C20_OrderPreserved ==
    op = "fuzz" => \A r \in {sv, iv} : r.ok => RefText(r.v) = data

\* C20: `{"a":0,"a":1}` is the object of the two pairs (a, 0) and (a, 1)
C20_Witness ==
    /\ op = "fuzz"
    /\ data = <<LCURLY>> \o KeyColon(97) \o <<ZERO, COMMA>> \o KeyColon(97)
                  \o <<49, RCURLY>>
    /\ sv.ok
    /\ sv.v.keys = << <<97>>, <<97>> >>
    /\ Len(sv.v.kids) = 2
    /\ sv.v.kids[1].s = <<ZERO>> /\ sv.v.kids[2].s = <<49>>

\* C21 (error agreement of discarding and value parsing): whenever
\* exactly_one with the value parser fails with an error that is not a
\* Unicode error, exactly_one with the ignore parser fails on the same input
\* with an equal Error, on the slice source and on the iterator source.
C21_ErrorAgreement ==
    op = "fuzz" =>
        /\ (~sv.ok /\ ~is_unicode_error(sv.err)) => (~si.ok /\ si.err = sv.err)
        /\ (~iv.ok /\ ~is_unicode_error(iv.err)) => (~ii.ok /\ ii.err = iv.err)

\* C21 on the slice source: `[1 ` fails with Expect(CommaOrEnd) in the value
\* parser and in the ignore parser
C21_SliceWitness ==
    /\ op = "fuzz"
    /\ data = <<LSQUARE, 49, SP>>
    /\ ~sv.ok /\ sv.err = Expect("CommaOrEnd") /\ si.err = sv.err

-----------------------------------------------------------------------------
(* SpecAscii: documents of ASCII bytes, among them those the number lexer    *)
(* and str_fold branch on, parsed as the fuzz target does.                   *)

MaxAsciiLen == 4

AsciiBytes ==
    { MINUS, ZERO, 49, DOT, 101, PLUS, QUOTE, BACKSLASH, 1, LSQUARE, RSQUARE, SP }

InitAscii == Start(<<>>)

FeedAscii == \E c \in AsciiBytes : Feed(<<c>>, MaxAsciiLen)

NextAscii == FeedAscii \/ fuzz_target

SpecAscii == InitAscii /\ [][NextAscii]_vars

\* C22 (no panic): on an input of ASCII bytes, exactly_one with the value
\* parser and with the ignore parser returns Ok or Err on both sources and
\* reaches none of the panics: the prefix assertion and the rewind of
\* num_bytes, the contiguity assertion of append_until, the unwraps of
\* NonZeroUsize::new and from_utf8, the unreachable arms of str_fold.
C22_NoPanic ==
    (op = "fuzz" /\ \A i \in DOMAIN data : data[i] < 128) =>
        \A r \in {sv, iv, si, ii} : r.err.cat # "Panic"

\* C22: `-1.1` goes through the rewind by the prefix `-`, the prefix
\* assertion and NonZeroUsize::new(pos).unwrap() at the dot, and is a Number
C22_Witness ==
    /\ op = "fuzz"
    /\ data = <<MINUS, 49, DOT, 49>>
    /\ sv.ok /\ sv.v.t = "Number" /\ sv.v.s = data /\ si.ok

-----------------------------------------------------------------------------
(* SpecRead: read, peek_next, take_next, skip_until and skip_next_until      *)
(* called in turn on an IterLexer whose upstream yields the items of data,   *)
(* bytes and Errs, and on a SliceLexer over the bytes data holds before its  *)
(* first Err.  A result keeps the lexer lx, the lexer was before the call,   *)
(* the name of the call and the Option<u8> out it returned (NoByte for None  *)
(* and for the calls that return nothing).                                   *)

MaxReadLen == 4
MaxReadOps == 3

ReadItems == { 72, SP, ErrBase + 1, ErrBase + 2 }

ReadStops == { "eat_whitespace", "space" }

InitRead == Start(<<>>)

FeedRead == \E c \in ReadItems : Feed(<<c>>, MaxReadLen)

\* the items of s before its first Err
BeforeErr(s) == Take(s, FirstIdx(s, 1, {ErrBase + 1, ErrBase + 2}) - 1)

ReadNew(lx) == [lx |-> lx, was |-> lx, call |-> "new", out |-> NoByte]

SliceCur == IF op = "new" THEN ReadNew(SliceLexer_new(BeforeErr(data))) ELSE sv
IterCur == IF op = "new" THEN ReadNew(IterLexer_new(data)) ELSE iv

Called(w, call, lx, out) == [lx |-> lx, was |-> w.lx, call |-> call, out |-> out]

ReadFrame ==
    /\ op \in {"new", "read"}
    /\ arg < MaxReadOps
    /\ op' = "read"
    /\ arg' = arg + 1
    /\ UNCHANGED <<data, fed, si, ii>>

read_call ==
    /\ ReadFrame
    /\ sv' = Let(Slice_read(SliceCur.lx), LAMBDA r : Called(SliceCur, "read", r.lx, r.b))
    /\ iv' = Let(Iter_read(IterCur.lx), LAMBDA r : Called(IterCur, "read", r.lx, r.b))

peek_next_call ==
    /\ ReadFrame
    /\ sv' = Called(SliceCur, "peek_next", SliceCur.lx, Slice_peek_next(SliceCur.lx))
    /\ iv' = Called(IterCur, "peek_next", IterCur.lx, Iter_peek_next(IterCur.lx))

take_next_call ==
    /\ ReadFrame
    /\ sv' = Let(Slice_take_next(SliceCur.lx), LAMBDA r :
                 Called(SliceCur, "take_next", r.lx, r.b))
    /\ iv' = Let(Iter_take_next(IterCur.lx), LAMBDA r :
                 Called(IterCur, "take_next", r.lx, r.b))

skip_until_call ==
    /\ ReadFrame
    /\ \E stop \in ReadStops :
           /\ sv' = Called(SliceCur, stop, Slice_skip_until(SliceCur.lx, 0, stop).lx, NoByte)
           /\ iv' = Called(IterCur, stop, Iter_skip_until(IterCur.lx, 0, stop).lx, NoByte)

skip_next_until_call ==
    /\ ReadFrame
    /\ \E stop \in ReadStops :
           /\ sv' = Called(SliceCur, "skip_next_until",
                           Slice_skip_next_until(SliceCur.lx, 0, stop).lx, NoByte)
           /\ iv' = Called(IterCur, "skip_next_until",
                           Iter_skip_next_until(IterCur.lx, 0, stop).lx, NoByte)

NextRead ==
    \/ FeedRead
    \/ read_call \/ peek_next_call \/ take_next_call
    \/ skip_until_call \/ skip_next_until_call

SpecRead == InitRead /\ [][NextRead]_vars

\* the Errs among the items the upstream iterator of lx has yielded so far
ErrsYielded(lx) ==
    SelectSeq(Take(data, Len(data) - Len(lx.bytes)), IsErrItem)

\* C23 (sticky upstream error): once the upstream iterator has yielded an
\* Err, the error cell holds the first Err it yielded, and every later read,
\* take_next and peek_next returns None and takes nothing more from upstream.
C23_StickyError ==
    op = "read" =>
        /\ ErrsYielded(iv.lx) # <<>> =>
               iv.lx.error = ErrsYielded(iv.lx)[1] - ErrBase
        /\ (ErrsYielded(iv.was) # <<>>
              /\ iv.call \in {"read", "take_next", "peek_next"}) =>
               (iv.out = NoByte /\ iv.lx.bytes = iv.was.bytes)

\* C23 where it holds: upstream yields `H`, then an Err and ends; the read
\* after the Err returns None and the cell holds the Err
C23_EndWitness ==
    /\ op = "read"
    /\ data = <<72, ErrBase + 1>>
    /\ iv.call = "read" /\ ErrsYielded(iv.was) = <<ErrBase + 1>>
    /\ iv.out = NoByte /\ iv.lx.error = 1

-----------------------------------------------------------------------------
(* SpecUpstream: the documents of Spec read from two streams, one whose      *)
(* upstream yields the bytes of data and ends, one whose upstream yields     *)
(* them and then an Err.  sv and si hold exactly_one with the value and the  *)
(* ignore parser on the stream that ends, iv and ii on the stream that       *)
(* yields the Err (arg); a result keeps the error cell and the number of     *)
(* items the upstream has not yielded.                                       *)

UpstreamOutcome(r) ==
    [ok |-> r.ok, err |-> r.err, v |-> r.v, error |-> r.lx.error,
     left |-> Len(r.lx.bytes)]

upstream_err ==
    /\ op = "new"
    /\ op' = "upstream"
    /\ \E e \in {1, 2} :
           /\ arg' = e
           /\ iv' = UpstreamOutcome(
                        exactly_one(IterLexer_new(data \o <<ErrBase + e>>), "value", 0))
           /\ ii' = UpstreamOutcome(
                        exactly_one(IterLexer_new(data \o <<ErrBase + e>>), "ignore", 0))
    /\ sv' = UpstreamOutcome(exactly_one(IterLexer_new(data), "value", 0))
    /\ si' = UpstreamOutcome(exactly_one(IterLexer_new(data), "ignore", 0))
    /\ UNCHANGED <<data, fed>>

NextUpstream == FeedJson \/ upstream_err

SpecUpstream == Init /\ [][NextUpstream]_vars

\* the run r on the stream that yields an Err has the outcome of the run
\* atEnd on the stream that ends, and the error cell holds the Err once the
\* upstream has yielded it
AsAtEnd(r, atEnd) ==
    /\ r.ok = atEnd.ok /\ r.err = atEnd.err /\ r.v = atEnd.v
    /\ r.left = 0 => r.error = arg

\* C24 (an upstream error behaves as the end of the input): on a stream
\* whose upstream yields the bytes S and then an Err, exactly_one, and with
\* it token classification, the number and string lexers and seq, returns
\* what it returns on a stream that yields S and ends, and afterwards the
\* error cell holds that Err.
C24_UpstreamErrAsEof ==
    op = "upstream" => AsAtEnd(iv, sv) /\ AsAtEnd(ii, si)

\* C24 where it holds: on the empty document both streams fail with
\* Expect(Value) and the error cell holds the Err
C24_EmptyWitness ==
    /\ op = "upstream"
    /\ data = <<>>
    /\ iv.err = Expect("Value") /\ sv.err = Expect("Value")
    /\ iv.error = arg /\ arg = 1

\* the call w records is the lookahead the claim describes: peek_next
\* returns the next unconsumed byte (None only at the end of the input) and
\* consumes nothing, take_next returns it and consumes exactly that byte
Lookahead(w) ==
    LET rem  == Remaining(w.was)
        next == IF rem = <<>> THEN NoByte ELSE rem[1]
    IN  /\ w.call = "peek_next" => (w.out = next /\ Remaining(w.lx) = rem)
        /\ w.call = "take_next" =>
               (w.out = next /\ Remaining(w.lx) = Drop(rem, Min({1, Len(rem)})))

\* C25 (single-byte lookahead): on both sources, over an upstream that
\* yields no Err, peek_next returns the next unconsumed input byte without
\* consuming it, None only when the input is exhausted, and take_next
\* returns that byte and advances by exactly one byte.
C25_Lookahead ==
    (op = "read" /\ BeforeErr(data) = data) => (Lookahead(sv) /\ Lookahead(iv))

\* C25 on the slice source: on `H `, take_next returns `H` and leaves ` `
C25_SliceWitness ==
    /\ op = "read"
    /\ data = <<72, SP>>
    /\ sv.call = "take_next" /\ sv.out = 72 /\ Remaining(sv.lx) = <<SP>>

\* the bytes the stop closure of a skip_until call is true for
RefSkipStops(stop) ==
    IF stop = "space" THEN {SP} ELSE (0..255) \ {SP, 9, 10, 13}

\* the call w records is skip_until as the claim describes it: it consumes
\* the bytes before the first one the closure is true for, and peek_next
\* shows that byte afterwards
Skipped(w) ==
    w.call \in ReadStops =>
        LET rem  == Remaining(w.was)
            rest == Drop(rem, Len(RefUpTo(rem, RefSkipStops(w.call))))
        IN  /\ Remaining(w.lx) = rest
            /\ peek_next(w.lx) = IF rest = <<>> THEN NoByte ELSE rest[1]

\* C26 (skip_until postcondition): on either source, over an upstream that
\* yields no Err, skip_until(pred) consumes exactly the bytes that precede
\* the first byte, at or after the current position, for which pred holds,
\* and peek_next then returns that byte (None if there is none); a byte
\* that already satisfies pred, the one in the putback cell included, is not
\* consumed, so a second eat_whitespace changes nothing.
C26_SkipUntil ==
    (op = "read" /\ BeforeErr(data) = data) => (Skipped(sv) /\ Skipped(iv))

\* C26 on the slice source: on ` H`, eat_whitespace called at `H` leaves `H`
C26_SliceWitness ==
    /\ op = "read"
    /\ data = <<SP, 72>>
    /\ sv.call = "eat_whitespace"
    /\ Remaining(sv.was) = <<72>> /\ Remaining(sv.lx) = <<72>>
    /\ Slice_peek_next(sv.lx) = 72

-----------------------------------------------------------------------------
(* SpecTok: ws_token called in turn on a SliceLexer and on an IterLexer over *)
(* the same bytes: the four whitespace bytes, a control byte that is not     *)
(* whitespace, and a first byte of each kind of token.  A result keeps the   *)
(* lexer lx, the lexer was before the call and the token (tok "None" for     *)
(* None).                                                                    *)

MaxTokLen == 3
MaxTokOps == 3

TokBytes ==
    { SP, HT, LF, CR, 11, 35, 110, 49, MINUS, QUOTE, COMMA, COLON,
      LSQUARE, RSQUARE, LCURLY, RCURLY }

InitTok == Start(<<>>)

FeedTok == \E c \in TokBytes : Feed(<<c>>, MaxTokLen)

ws_token_call ==
    /\ op \in {"new", "tok"}
    /\ arg < MaxTokOps
    /\ op' = "tok"
    /\ arg' = arg + 1
    /\ LET sl == IF op = "new" THEN SliceLexer_new(data) ELSE sv.lx
           il == IF op = "new" THEN IterLexer_new(data) ELSE iv.lx
       IN  /\ sv' = Let(ws_token(sl), LAMBDA t : [lx |-> t.lx, was |-> sl, tok |-> t.tok])
           /\ iv' = Let(ws_token(il), LAMBDA t : [lx |-> t.lx, was |-> il, tok |-> t.tok])
    /\ UNCHANGED <<data, fed, si, ii>>

NextTok == FeedTok \/ ws_token_call

SpecTok == InitTok /\ [][NextTok]_vars

\* the token a byte begins
RefToken(c) ==
    CASE c \in (97..122) \cup (65..90) -> "Letter"
      [] c \in 48..57 -> "Digit"
      [] c = 45  -> "Minus"
      [] c = 34  -> "Quote"
      [] c = 91  -> "LSquare"
      [] c = 93  -> "RSquare"
      [] c = 123 -> "LCurly"
      [] c = 125 -> "RCurly"
      [] c = 44  -> "Comma"
      [] c = 58  -> "Colon"
      [] OTHER   -> "Error"

\* the call w records is ws_token as the claim describes it
TokenOf(w) ==
    LET rem  == Remaining(w.was)
        rest == Drop(rem, FirstIdx(rem, 1, (0..255) \ {32, 9, 10, 13}) - 1)
    IN  IF rest = <<>> THEN w.tok = "None" /\ Remaining(w.lx) = <<>>
        ELSE /\ w.tok = RefToken(rest[1])
             /\ Remaining(w.lx) = IF w.tok \in {"Letter", "Digit", "Error"}
                                  THEN rest ELSE Tail(rest)

\* C27 (token classification): ws_token skips exactly the bytes 0x20, 0x09,
\* 0x0A and 0x0D and classifies the next byte; it consumes that byte only
\* for the single-character tokens , : [ ] { } " - and leaves it unconsumed
\* for Letter, Digit and Error.
C27_TokenClassification ==
    op = "tok" => (TokenOf(sv) /\ TokenOf(iv))

\* C27 on a fresh lexer of either source: on ` 1`, ws_token skips the space,
\* returns Digit and leaves `1`
C27_FreshWitness ==
    /\ op = "tok" /\ arg = 1
    /\ data = <<SP, 49>>
    /\ sv.tok = "Digit" /\ Remaining(sv.lx) = <<49>>
    /\ iv.tok = "Digit" /\ Remaining(iv.lx) = <<49>>

-----------------------------------------------------------------------------
(* SpecMany: value::many and ignore::many over documents put together from   *)
(* well-formed values, whitespace and a byte that begins no token.  arg is   *)
(* the sequence of the values the document was put together from (Junk      *)
(* for the byte that begins no token).  sv and iv hold the iterator of       *)
(* value::many on the two sources: its lexer lx, the lexer was before the    *)
(* last call of next, the items yielded so far and whether it has returned   *)
(* None; si and ii the result of ignore::many.                               *)

MaxManyLen == 3
MaxPulls == 4

\* value::many: one call of the iterator's next
many_next(lx) ==
    Let(ws_token(lx), LAMBDA t :
        IF t.tok = "None" THEN [some |-> FALSE, item |-> NoRes, lx |-> t.lx]
        ELSE Let(from_token(t.tok, t.lx), LAMBDA r :
             [some |-> TRUE, item |-> Outcome(r), lx |-> r.lx]))

\* ignore::many
RECURSIVE ignore_many(_)
ignore_many(lx) ==
    Let(ws_token(lx), LAMBDA t :
        IF t.tok = "None" THEN Ok(Null, t.lx)
        ELSE Let(ignore_parse(t.tok, t.lx), LAMBDA r :
             IF ~r.ok THEN r ELSE ignore_many(r.lx)))

\* what stands in arg for the byte that begins no token
Junk == Value("Junk", FALSE, <<>>, NoParts, <<>>, <<>>)

\* the pieces a document is put together from: text and value
ManyChunks ==
    { [text |-> <<110, 117, 108, 108>>, v |-> <<Null>>],
      [text |-> <<49, 50, SP>>, v |-> <<Number(<<49, 50>>, NoParts)>>],
      [text |-> <<LSQUARE, 49, RSQUARE>>,
       v |-> <<Array(<<Number(<<49>>, NoParts)>>)>>],
      [text |-> <<QUOTE, 97, QUOTE>>, v |-> <<String(<<97>>)>>],
      [text |-> <<SP>>, v |-> <<>>],
      [text |-> <<35>>, v |-> <<Junk>>] }

InitMany ==
    /\ data = <<>> /\ fed = 0 /\ op = "new" /\ arg = <<>>
    /\ sv = NoRes /\ iv = NoRes /\ si = NoRes /\ ii = NoRes

FeedMany ==
    /\ op = "new"
    /\ fed < MaxManyLen
    /\ \E c \in ManyChunks : data' = data \o c.text /\ arg' = arg \o c.v
    /\ fed' = fed + 1
    /\ UNCHANGED <<op, sv, iv, si, ii>>

ManyNew(lx) == [lx |-> lx, was |-> lx, items |-> <<>>, done |-> FALSE]

\* next called on an iterator that has not returned None yet
Pulled(w) ==
    IF w.done \/ Len(w.items) >= MaxPulls THEN w
    ELSE Let(many_next(w.lx), LAMBDA r :
         [lx |-> r.lx, was |-> w.lx,
          items |-> IF r.some THEN Append(w.items, r.item) ELSE w.items,
          done |-> ~r.some])

many_pull ==
    /\ op \in {"new", "many"}
    /\ LET s == IF op = "new" THEN ManyNew(SliceLexer_new(data)) ELSE sv
           i == IF op = "new" THEN ManyNew(IterLexer_new(data)) ELSE iv
       IN  /\ Pulled(s) # s \/ Pulled(i) # i \/ op = "new"
           /\ sv' = Pulled(s)
           /\ iv' = Pulled(i)
    /\ op' = "many"
    /\ UNCHANGED <<data, fed, arg, si, ii>>

ignore_many_call ==
    /\ op = "new"
    /\ op' = "ignored"
    /\ si' = Outcome(ignore_many(SliceLexer_new(data)))
    /\ ii' = Outcome(ignore_many(IterLexer_new(data)))
    /\ UNCHANGED <<data, fed, arg, sv, iv>>

NextMany == FeedMany \/ many_pull \/ ignore_many_call

SpecMany == InitMany /\ [][NextMany]_vars

WellFormedMany == \A i \in DOMAIN arg : arg[i] # Junk

\* the iterator w has yielded the values of the document, in order, as far
\* as it has been pulled, ends only after the last of them, and has returned
\* None exactly if only whitespace was left
YieldsInOrder(w) ==
    /\ Len(w.items) <= Len(arg)
    /\ \A i \in DOMAIN w.items : w.items[i].ok /\ w.items[i].v = arg[i]
    /\ w.done => Len(w.items) = Len(arg)
    /\ w.done <=> AllWhitespace(Remaining(w.was))

\* C28 (value-many): on a document of well-formed values separated by
\* optional whitespace, the many iterator yields exactly those values, one
\* per item and in input order, and then ends; it returns None exactly when
\* only whitespace is left; ignore::many returns Ok(()) on such a document.
C28_ValueMany ==
    WellFormedMany =>
        /\ op = "many" => (YieldsInOrder(sv) /\ YieldsInOrder(iv))
        /\ op = "ignored" => (si.ok /\ ii.ok)

\* C28 on the slice source: `12 [1]null` yields 12, [1], null and then None
C28_SliceWitness ==
    /\ op = "many"
    /\ data = <<49, 50, SP, LSQUARE, 49, RSQUARE, 110, 117, 108, 108>>
    /\ sv.done /\ Len(sv.items) = 3
    /\ sv.items[1].v = Number(<<49, 50>>, NoParts)
    /\ sv.items[2].v.t = "Array" /\ sv.items[3].v = Null

\* the last call of next on the iterator w, if it yielded an item, consumed
\* at least one byte
Progressed(w) ==
    (~w.done /\ w.items # <<>>) => Len(Remaining(w.lx)) < Len(Remaining(w.was))

\* C29 (progress of value-many): every item the many iterator produces, Ok
\* or Err, consumes at least one input byte, on any input, so that pulling
\* on and ignoring errors ends with None; no byte makes the iterator yield
\* the same error for ever.
C29_ManyProgress ==
    op = "many" => (Progressed(sv) /\ Progressed(iv))

\* C29 on the slice source: on `12 null` the second item, null, consumes the
\* five bytes that were left
C29_SliceWitness ==
    /\ op = "many"
    /\ data = <<49, 50, SP, 110, 117, 108, 108>>
    /\ Len(sv.items) = 2 /\ ~sv.done
    /\ Remaining(sv.was) = <<SP, 110, 117, 108, 108>> /\ Remaining(sv.lx) = <<>>

-----------------------------------------------------------------------------
(* value.rs: impl Display for JsonString and for Value.  SpecShow: a         *)
(* document is parsed with exactly_one and the value parser, the Value is    *)
(* written with Display, and the text is parsed again, on each source.       *)

\* impl Display for JsonString: a char below 128 is its byte, and the bytes
\* of the other chars are written as they are
JsonString_fmt(s) ==
    LET esc(c) ==
            CASE c = BACKSLASH -> <<BACKSLASH, BACKSLASH>>
              [] c = QUOTE     -> <<BACKSLASH, QUOTE>>
              [] c = LF        -> <<BACKSLASH, 110>>
              [] c = CR        -> <<BACKSLASH, 114>>
              [] c = HT        -> <<BACKSLASH, 116>>
              [] c < 20        -> <<BACKSLASH, 117, ZERO, ZERO,
                                    HexDigit(c \div 16, FALSE), HexDigit(c % 16, FALSE)>>
              [] OTHER         -> <<c>>
        f[i \in 0..Len(s)] == IF i = 0 THEN <<QUOTE>> ELSE f[i - 1] \o esc(s[i])
    IN  f[Len(s)] \o <<QUOTE>>

\* impl Display for Value
RECURSIVE Value_fmt(_)
Value_fmt(v) ==
    LET kid(i) == IF v.t = "Object"
                  THEN JsonString_fmt(v.keys[i]) \o <<COLON>> \o Value_fmt(v.kids[i])
                  ELSE Value_fmt(v.kids[i])
        f[i \in 0..Len(v.kids)] ==
            CASE i = 0 -> <<>>
              [] i = 1 -> kid(1)
              [] OTHER -> f[i - 1] \o <<COMMA>> \o kid(i)
    IN  CASE v.t = "Null"   -> <<110, 117, 108, 108>>
          [] v.t = "Bool"   -> IF v.b THEN <<116, 114, 117, 101>>
                               ELSE <<102, 97, 108, 115, 101>>
          [] v.t = "Number" -> v.s
          [] v.t = "String" -> JsonString_fmt(v.s)
          [] v.t = "Array"  -> <<LSQUARE>> \o f[Len(v.kids)] \o <<RSQUARE>>
          [] OTHER          -> <<LCURLY>> \o f[Len(v.kids)] \o <<RCURLY>>

MaxShowLen == 4

ShowChunks ==
    { <<LSQUARE>>, <<RSQUARE>>, <<LCURLY>>, <<RCURLY>>, <<COMMA>>, <<QUOTE>>, <<97>>,
      <<49, 50>>, <<110, 117, 108, 108>>, <<116, 114, 117, 101>>, KeyColon(97),
      <<BACKSLASH, 110>>, <<BACKSLASH, QUOTE>>, <<BACKSLASH, BACKSLASH>>,
      EscU(19, FALSE), EscU(31, FALSE) }

InitShow == Start(<<>>)

FeedShow == \E c \in ShowChunks : Feed(c, MaxShowLen)

\* parse, write, parse again: text is v.to_string() (empty if there is no
\* v), again the result of parsing text
Shown(lx0, again0) ==
    Let(exactly_one(lx0, "value", 0), LAMBDA r :
        IF ~r.ok
        THEN [ok |-> FALSE, err |-> r.err, v |-> r.v, text |-> <<>>, again |-> NoRes]
        ELSE Let(Value_fmt(r.v), LAMBDA text :
             [ok |-> TRUE, err |-> r.err, v |-> r.v, text |-> text,
              again |-> Outcome(exactly_one(
                            IF again0 = "slice" THEN SliceLexer_new(text)
                            ELSE IterLexer_new(text), "value", 0))]))

show_step ==
    /\ op = "new"
    /\ op' = "show"
    /\ sv' = Shown(SliceLexer_new(data), "slice")
    /\ iv' = Shown(IterLexer_new(data), "iter")
    /\ UNCHANGED <<data, fed, arg, si, ii>>

NextShow == FeedShow \/ show_step

SpecShow == InitShow /\ [][NextShow]_vars

\* C30 (serialisation round trip): every Value the value parser returns,
\* written with Display and parsed again with exactly_one and the value
\* parser, gives an equal Value; the text holds no raw character below
\* U+0020.
C30_RoundTrip ==
    op = "show" =>
        \A r \in {sv, iv} :
            r.ok => /\ r.again.ok /\ r.again.v = r.v
                    /\ \A i \in DOMAIN r.text : r.text[i] >= 32

\* C30 where it holds: {"a":12} is written as it was read and parsed again
\* to the same Object
C30_SliceWitness ==
    /\ op = "show"
    /\ data = <<LCURLY>> \o KeyColon(97) \o <<49, 50, RCURLY>>
    /\ sv.ok /\ sv.text = data /\ sv.again.ok /\ sv.again.v = sv.v

=============================================================================
